---- MODULE Spec2Model ----
(***************************************************************************)
(* dune-sync: the PostgreSQL destination (src/destinations/postgres.py).   *)
(*                                                                         *)
(* The database holds one table, "foo", in schema "public".  A            *)
(* PostgresDestination object is constructed (validated) and then saved    *)
(* to, once per job run (src/job.py); between calls other clients may drop *)
(* the table or add / drop unique constraints, as tests/db_util.py does.   *)
(* save() takes its argument apart as a (df, dtypes) pair.  Every call     *)
(* records its arguments, the table it found, its outcome and what it      *)
(* logged in `last`.                                                       *)
(*                                                                         *)
(* PostgreSQL and pandas are modelled by their documented behaviour:       *)
(* unique constraints treat NULLs as distinct; to_sql runs in one          *)
(* transaction on the connection it is given; a batch is sent either as    *)
(* one multi-VALUES command or row by row, depending on the driver.        *)
(***************************************************************************)
EXTENDS Bags, FiniteSets, Integers, Sequences, TLC

VARIABLES
    db,     \* the target table: existence, column types, rows, unique constraints
    dest,   \* the PostgresDestination object, or NoDest
    last,   \* the last call: what it was given, what it found, what it did
    DUNE_TO_PG, \* sources/dune.py: the type registry, Dune type string -> column type
    call,   \* the last call into a source: its arguments, its outcome
    run,    \* job.py: one Job.run, where it stands and what it has done
    runtime,  \* config.py: the last RuntimeConfig(jobs) and what it came to
    dune,   \* destinations/dune.py: a DuneDestination and its last call
    dune_client, \* destinations/dune.py: what the Dune client did during the last save
    history, \* one PostgresDestination object: its saves so far and how each found the table
    wrapper, \* metrics.py: one call of a run wrapped by collect_metrics
    session, \* sources/dune.py: the client connection of one DuneSource across its fetches
    program  \* main.py: one execution of main()

vars == <<db, dest, last, DUNE_TO_PG, call, run, runtime, dune, dune_client, history, wrapper, session, program>>

postgresVars == <<db, dest, last>>
sourceVars == <<DUNE_TO_PG, call>>

----------------------------------------------------------------------------
(* Bounds *)

MaxBatch == 2       \* rows in one incoming DataFrame
MaxRows == 2        \* rows the table may hold

----------------------------------------------------------------------------
(* Values *)

NULL == "NULL"

ToSet(s) == {s[i] : i \in 1..Len(s)}

\* src/interfaces.py Validate.__init__ raises; the object never exists
NoDest == [if_exists |-> "none", schema |-> "none", table_name |-> "none",
           index_columns |-> <<>>]

AvailableSchemas == {"public"}

\* A database without the table
NoTable == [exists |-> FALSE, schema |-> <<>>, rows |-> EmptyBag,
            constraints |-> {}]

\* column lists a unique constraint may be declared on
ConstraintChoices == {<<"id">>, <<"value">>, <<"id", "value">>}

\* the (table_name, if_exists, index_columns) a destination is configured with
Configurations ==
    {<<"foo", "append", <<>>>>, <<"foo", "replace", <<>>>>,
     <<"foo", "upsert", <<>>>>, <<"foo", "upsert", <<"id">>>>,
     <<"foo", "upsert", <<"value", "id">>>>,
     <<"foo", "insert_ignore", <<>>>>, <<"foo", "insert_ignore", <<"id">>>>,
     <<"analytics.foo", "upsert", <<>>>>, <<"analytics.foo", "append", <<>>>>}

----------------------------------------------------------------------------
(* DataFrames: (df, dtypes) pairs as save() destructures them *)

RECURSIVE SeqsUpTo(_, _)
SeqsUpTo(S, n) ==
    IF n = 0 THEN {<<>>}
    ELSE LET shorter == SeqsUpTo(S, n - 1)
         IN shorter \cup {Append(s, x) : s \in {t \in shorter : Len(t) = n - 1}, x \in S}

Frame(columns, records, dtypes) ==
    [columns |-> columns, records |-> records, dtypes |-> dtypes]

\* pd.DataFrame([]): no columns, no rows
EmptyFrame == Frame(<<>>, <<>>, <<>>)

\* records of a frame with columns id, value: the same key with two values,
\* a second key, a null key
FullRecords ==
    {[id |-> "1", value |-> "a"], [id |-> "1", value |-> "b"],
     [id |-> "2", value |-> "a"], [id |-> NULL, value |-> "a"]}

\* frames with columns id, value and no declared types (zero rows included)
FullFrames ==
    {Frame(<<"id", "value">>, rs, <<>>) : rs \in SeqsUpTo(FullRecords, MaxBatch)}

\* frames with the one column id, declared NUMERIC
IdFrames ==
    {Frame(<<"id">>, rs, [id |-> "NUMERIC"]) : rs \in SeqsUpTo({[id |-> "1"]}, MaxBatch)}

DataFrames == {EmptyFrame} \cup FullFrames \cup IdFrames

\* emptiness judged by the columns alone
empty_no_columns(df) == Len(df.columns) = 0

\* DataFrame.empty: either axis has length 0
empty(df) == Len(df.records) = 0 \/ Len(df.columns) = 0

----------------------------------------------------------------------------
(* The database: rows, unique constraints, transactions *)

\* the column type pandas derives from the data when dtypes does not name the column
InferredType(c) == IF c = "id" THEN "BIGINT" ELSE "TEXT"

\* the schema to_sql creates: dtype=dtypes overrides the inferred type
FrameSchema(df) ==
    [c \in ToSet(df.columns) |->
        IF c \in DOMAIN df.dtypes THEN df.dtypes[c] ELSE InferredType(c)]

\* a record as stored: columns the record lacks take the column default, NULL
Stored(rec, schema) ==
    [c \in DOMAIN schema |-> IF c \in DOMAIN rec THEN rec[c] ELSE NULL]

\* two stored rows collide on a column list: equal and non-null on each column
\* (NULLs are distinct in a PostgreSQL unique constraint)
Collide(r, s, columns) ==
    \A c \in ToSet(columns) : r[c] = s[c] /\ r[c] # NULL

UniqueOn(rows, columns) ==
    \A r \in BagToSet(rows) :
        (\A c \in ToSet(columns) : r[c] # NULL) =>
            /\ CopiesIn(r, rows) = 1
            /\ \A s \in BagToSet(rows) \ {r} : ~Collide(r, s, columns)

ConstraintsHold(rows, constraints) ==
    \A k \in constraints : UniqueOn(rows, k)

One(r) == SetToBag({r})

\* A unit of work inside a transaction: the table as the statements so far
\* left it, and the error that stopped them ("none" when all ran)
Work(table, raised, rowcount) ==
    [table |-> table, raised |-> raised, rowcount |-> rowcount]

\* every statement commits on its own: nothing is rolled back
Autocommit(found, work) == work.table

\* `with conn.begin():` / the transaction to_sql opens on the connection:
\* commit when the block ends, roll back to the table as found when it raises
Transaction(found, work) ==
    IF work.raised = "none" THEN work.table ELSE found

\* plain INSERTs of records[i..] into the table, one after the other;
\* fault = k > 0: the server aborts the k-th INSERT
RECURSIVE InsertRows(_, _, _, _)
InsertRows(table, records, i, fault) ==
    IF i > Len(records) THEN Work(table, "none", Len(records))
    ELSE IF fault = i THEN Work(table, "OperationalError", i - 1)
    ELSE LET rows == table.rows (+) One(Stored(records[i], table.schema))
         IN IF ~ConstraintsHold(rows, table.constraints)
            THEN Work(table, "IntegrityError", i - 1)
            ELSE InsertRows([table EXCEPT !.rows = rows], records, i + 1, fault)

\* DataFrame.to_sql(table_name, connection, if_exists=..., dtype=dtypes)
to_sql(found, df, if_exists, fault) ==
    LET fresh == [exists |-> TRUE, schema |-> FrameSchema(df),
                  rows |-> EmptyBag, constraints |-> {}]
        target == IF if_exists = "replace" \/ ~found.exists THEN fresh ELSE found
    IN IF ~(ToSet(df.columns) \subseteq DOMAIN target.schema)
       THEN Work(found, "ProgrammingError", 0)
       ELSE InsertRows(target, df.records, 1, fault)

\* DO UPDATE that resets the columns the frame lacks
Updated_reset(old, rec) ==
    [c \in DOMAIN old |-> IF c \in DOMAIN rec THEN rec[c] ELSE NULL]

\* DO UPDATE that leaves the conflicting row as it was
Updated_keep(old, rec) == old

\* set_={col: excluded.col for col in columns}: the conflicting row takes the
\* incoming value of every column of the frame and keeps its other columns
Updated(old, rec) ==
    [c \in DOMAIN old |-> IF c \in DOMAIN rec THEN rec[c] ELSE old[c]]

\* INSERT ... ON CONFLICT (index_columns) DO UPDATE SET col = excluded.col /
\* DO NOTHING, for records[i..].  touched: the rows this command has already
\* inserted or updated.  multirow: the driver sends the batch as one
\* multi-VALUES command, which may not update a row twice
RECURSIVE InsertOnConflict(_, _, _, _, _, _, _, _)
InsertOnConflict(table, records, i, on_conflict, index_columns, touched, multirow, fault) ==
    IF i > Len(records) THEN Work(table, "none", Cardinality(touched))
    ELSE IF fault = i THEN Work(table, "OperationalError", 0)
    ELSE
    LET rec == records[i]
        new == Stored(rec, table.schema)
        hits == {r \in BagToSet(table.rows) : Collide(r, new, index_columns)}
    IN IF hits = {}
       THEN LET rows == table.rows (+) One(new)
            IN IF ~ConstraintsHold(rows, table.constraints)
               THEN Work(table, "IntegrityError", 0)
               ELSE InsertOnConflict([table EXCEPT !.rows = rows], records, i + 1,
                        on_conflict, index_columns, touched \cup {i},
                        multirow, fault)
       ELSE IF on_conflict = "nothing"
       THEN InsertOnConflict(table, records, i + 1, on_conflict, index_columns,
                touched, multirow, fault)
       ELSE LET old == CHOOSE r \in hits : TRUE
                upd == Updated(old, rec)
                rows == (table.rows (-) One(old)) (+) One(upd)
                again == \E j \in touched : Collide(Stored(records[j], table.schema),
                                                     new, index_columns)
            IN IF multirow /\ again
               THEN Work(table, "CardinalityViolation", 0)
               ELSE IF ~ConstraintsHold(rows, table.constraints)
               THEN Work(table, "IntegrityError", 0)
               ELSE InsertOnConflict([table EXCEPT !.rows = rows], records, i + 1,
                        on_conflict, index_columns, touched \cup {i},
                        multirow, fault)

----------------------------------------------------------------------------
(* PostgresDestination *)

Log(level, msg, args) == [level |-> level, msg |-> msg, args |-> args]

\* what a method call comes to: the table afterwards, the exception raised
\* ("none" when it returned), the value returned, the lines logged
Outcome(table, raised, ret, logs) ==
    [table |-> table, raised |-> raised, ret |-> ret, logs |-> logs]

\* __init__: schema "public" unless table_name carries one
Config(table_name, if_exists, index_columns) ==
    [schema |-> IF table_name = "analytics.foo" THEN "analytics" ELSE "public",
     table_name |-> "foo",
     if_exists |-> if_exists,
     index_columns |-> index_columns]

\* validate() that checks the schema only
validate_schema_only(self) ==
    IF self.schema \notin AvailableSchemas
    THEN [ok |-> FALSE,
          logs |-> <<Log("error", "Schema does not exist", <<self.schema>>)>>]
    ELSE [ok |-> TRUE, logs |-> <<>>]

\* validate(): the lines it logs, and whether it returned True
validate(self) ==
    IF self.schema \notin AvailableSchemas
    THEN [ok |-> FALSE,
          logs |-> <<Log("error", "Schema does not exist", <<self.schema>>)>>]
    ELSE IF self.if_exists = "upsert" /\ Len(self.index_columns) = 0
    THEN [ok |-> FALSE,
          logs |-> <<Log("error", "Upsert without index columns.", <<>>)>>]
    ELSE [ok |-> TRUE, logs |-> <<>>]

\* table_exists() that always answers True
table_exists_always(self, found) == TRUE

\* table_exists(): asks the inspector each time
table_exists(self, found) == found.exists

\* a constraint that covers the index columns among others passes
has_unique_constraint_superset(self, found) ==
    \E constraint \in found.constraints :
        ToSet(self.index_columns) \subseteq ToSet(constraint)

\* validate_unique_constraints(): a constraint on exactly the index columns?
has_unique_constraint(self, found) ==
    \E constraint \in found.constraints :
        ToSet(self.index_columns) = ToSet(constraint)

\* the suggestion validate_unique_constraints logs before raising
suggestion(self) ==
    Log("error", "The ON CONFLICT clause requires a unique or exclusion constraint",
        <<"ALTER TABLE", self.table_name, "ADD CONSTRAINT",
          <<self.table_name, self.index_columns, "unique">>,
          "UNIQUE", self.index_columns>>)

\* append() that passes if_exists="replace"
append_as_replace(self, found, df, fault) ==
    LET work == to_sql(found, df, "replace", fault)
    IN Outcome(Transaction(found, work), work.raised,
               IF work.raised = "none" THEN Len(df.records) ELSE 0, <<>>)

\* append(): to_sql(if_exists="append"); returns len(df)
append(self, found, df, fault) ==
    LET work == to_sql(found, df, "append", fault)
    IN Outcome(Transaction(found, work), work.raised,
               IF work.raised = "none" THEN Len(df.records) ELSE 0, <<>>)

\* replace() that passes if_exists="append"
replace_as_append(self, found, df, fault) == append(self, found, df, fault)

\* replace(): to_sql(if_exists="replace"); returns len(df)
replace(self, found, df, fault) ==
    LET work == to_sql(found, df, "replace", fault)
    IN Outcome(Transaction(found, work), work.raised,
               IF work.raised = "none" THEN Len(df.records) ELSE 0, <<>>)

\* insert(data, on_conflict)
insert(self, found, df, on_conflict, multirow, fault) ==
    IF ~table_exists(self, found) THEN append(self, found, df, fault)
    ELSE IF ~has_unique_constraint(self, found)
    THEN Outcome(found, "ValueError", 0, <<suggestion(self)>>)
    ELSE IF ~(ToSet(df.columns) \subseteq DOMAIN found.schema)
    THEN Outcome(found, "CompileError", 0, <<>>)
    ELSE LET work == InsertOnConflict(found, df.records, 1, on_conflict,
                         self.index_columns, {}, multirow, fault)
         IN Outcome(Transaction(found, work), work.raised,
                    IF work.raised = "none" THEN work.rowcount ELSE 0, <<>>)

\* every conflict policy updates
on_conflict_update(if_exists) == "update"

\* save(): upsert -> on_conflict="update", insert_ignore -> on_conflict="nothing"
on_conflict(if_exists) == IF if_exists = "upsert" THEN "update" ELSE "nothing"

\* save(data)
save(self, found, df, multirow, fault) ==
    IF empty(df)
    THEN Outcome(found, "none", 0,
                 <<Log("warning", "DataFrame is empty. Skipping save to PostgreSQL.", <<>>)>>)
    ELSE LET done ==
                CASE self.if_exists \in {"upsert", "insert_ignore"} ->
                        insert(self, found, df, on_conflict(self.if_exists),
                               multirow, fault)
                  [] self.if_exists = "append" -> append(self, found, df, fault)
                  [] self.if_exists = "replace" -> replace(self, found, df, fault)
         IN IF done.raised = "none"
            THEN [done EXCEPT !.logs = Append(@, Log("info", "Data saved successfully!",
                                                       <<self.table_name>>))]
            ELSE done

----------------------------------------------------------------------------
(* Python values *)

\* A Python object is its type and its content.  A str is the sequence of its
\* characters, bytes the sequence of its byte values, a list the sequence of
\* its items, a dict the sequence of its <<key, value>> items.
Py(kind, v) == [kind |-> kind, v |-> v]

None == Py("None", 0)
NaN == Py("float", "nan")
PyInt(n) == Py("int", n)
PyStr(chars) == Py("str", chars)
PyList(items) == Py("list", items)
PyDict(items) == Py("dict", items)
PyBytes(b) == Py("bytes", b)
memoryview(b) == Py("memoryview", b)

\* an exception in the place of a value
Raised(exception) == Py("raised", exception)

\* bool(x) for the objects an `if` is given here: None and 0 are false
Truthy(x) == x.kind = "int" /\ x.v # 0

\* pd.notnull(x)
notnull(x) == x.kind # "None" /\ x # NaN

Digit == <<"0", "1", "2", "3", "4", "5", "6", "7", "8", "9">>

Digits == ToSet(Digit)

DigitValue(c) == CHOOSE n \in 0..9 : Digit[n + 1] = c

\* str(n) of a non-negative int, as characters
RECURSIVE str(_)
str(n) == IF n < 10 THEN <<Digit[n + 1]>> ELSE Append(str(n \div 10), Digit[(n % 10) + 1])

\* the value of a literal of decimal digits
RECURSIVE Value(_)
Value(literal) ==
    IF Len(literal) = 0 THEN 0
    ELSE 10 * Value(SubSeq(literal, 1, Len(literal) - 1)) + DigitValue(literal[Len(literal)])

\* int(literal): ValueError unless the literal is one or more decimal digits
int(literal) ==
    IF Len(literal) >= 1 /\ ToSet(literal) \subseteq Digits
    THEN PyInt(Value(literal))
    ELSE Raised("ValueError")

----------------------------------------------------------------------------
(* Dune source: type strings and the type registry *)

\* A type string is the sequence of its tokens: a digit, "(", ")", "," and " "
\* each stand alone, and every other run of characters is one token.
bigint == <<"bigint">>
integer == <<"integer">>
varbinary == <<"varbinary">>
date == <<"date">>
boolean == <<"boolean">>
varchar == <<"varchar">>
double == <<"double">>
real == <<"real">>
timestamp_with_time_zone == <<"timestamp", " ", "with", " ", "time", " ", "zone">>
uint256 == <<"uint", "2", "5", "6">>

\* a column type: a SQLAlchemy type class, or NUMERIC(precision, scale)
SqlType(name, args) == [name |-> name, args |-> args]

BIGINT == SqlType("BIGINT", <<>>)
INTEGER == SqlType("INTEGER", <<>>)
BYTEA == SqlType("BYTEA", <<>>)
DATE == SqlType("DATE", <<>>)
BOOLEAN_ == SqlType("BOOLEAN", <<>>)
VARCHAR == SqlType("VARCHAR", <<>>)
DOUBLE_PRECISION == SqlType("DOUBLE_PRECISION", <<>>)
TIMESTAMP == SqlType("TIMESTAMP", <<>>)
NUMERIC == SqlType("NUMERIC", <<>>)
JSONB == SqlType("JSONB", <<>>)
Numeric(precision, scale) == SqlType("NUMERIC", <<precision, scale>>)
NoType == SqlType("None", <<>>)

\* DUNE_TO_PG as the module defines it
StaticTypes ==
    (bigint :> BIGINT) @@ (integer :> INTEGER) @@ (varbinary :> BYTEA) @@
    (date :> DATE) @@ (boolean :> BOOLEAN_) @@ (varchar :> VARCHAR) @@
    (double :> DOUBLE_PRECISION) @@ (real :> DOUBLE_PRECISION) @@
    (timestamp_with_time_zone :> TIMESTAMP) @@ (uint256 :> NUMERIC)

\* dict.get(key): None when the key is absent
get(registry, key) == IF key \in DOMAIN registry THEN registry[key] ELSE NoType

\* a store that writes the value under every key
setitem_all(registry, key, value) == [k \in DOMAIN registry \cup {key} |-> value]

\* registry[key] = value
setitem(registry, key, value) == (key :> value) @@ registry

Whitespace == {" "}

\* the number of tokens of `class` that follow one another from position i
RECURSIVE Run(_, _, _)
Run(s, i, class) ==
    IF i <= Len(s) /\ s[i] \in class THEN 1 + Run(s, i + 1, class) ELSE 0

At(s, i, token) == i <= Len(s) /\ s[i] = token

NoMatch == [matched |-> FALSE, groups |-> <<>>]

Match(groups) == [matched |-> TRUE, groups |-> groups]

\* re.match(DECIMAL_PATTERN, type_str), with (\d*) for (\d+)
match_decimal_star(type_str) ==
    LET p == Run(type_str, 3, Digits)
        sp == Run(type_str, 4 + p, Whitespace)
        q == Run(type_str, 4 + p + sp, Digits)
    IN IF /\ At(type_str, 1, "decimal") /\ At(type_str, 2, "(")
          /\ At(type_str, 3 + p, ",")
          /\ At(type_str, 4 + p + sp + q, ")")
       THEN Match(<<SubSeq(type_str, 3, 2 + p),
                    SubSeq(type_str, 4 + p + sp, 3 + p + sp + q)>>)
       ELSE NoMatch

\* re.match(DECIMAL_PATTERN, type_str): decimal\((\d+),\s*(\d+)\) at the start
match_decimal(type_str) ==
    LET p == Run(type_str, 3, Digits)
        sp == Run(type_str, 4 + p, Whitespace)
        q == Run(type_str, 4 + p + sp, Digits)
    IN IF /\ At(type_str, 1, "decimal") /\ At(type_str, 2, "(")
          /\ p >= 1 /\ At(type_str, 3 + p, ",")
          /\ q >= 1 /\ At(type_str, 4 + p + sp + q, ")")
       THEN Match(<<SubSeq(type_str, 3, 2 + p),
                    SubSeq(type_str, 4 + p + sp, 3 + p + sp + q)>>)
       ELSE NoMatch

\* re.match(VARCHAR_PATTERN, type_str): varchar\((\d+)\) at the start
match_varchar(type_str) ==
    LET n == Run(type_str, 3, Digits)
    IN IF /\ At(type_str, 1, "varchar") /\ At(type_str, 2, "(")
          /\ n >= 1 /\ At(type_str, 3 + n, ")")
       THEN Match(<<SubSeq(type_str, 3, 2 + n)>>)
       ELSE NoMatch

\* _parse_varchar_type: the length, None without a match
_parse_varchar_type(type_str) ==
    LET match == match_varchar(type_str)
    IN IF ~match.matched THEN None ELSE int(match.groups[1])

\* _parse_decimal_type: (precision, scale), (None, None) without a match
_parse_decimal_type(type_str) ==
    LET match == match_decimal(type_str)
    IN IF match.matched
       THEN <<int(match.groups[1]), int(match.groups[2])>>
       ELSE <<None, None>>

\* what _handle_column_types comes to: the exception raised ("none" when it
\* returned), the tuple returned, the lines logged, DUNE_TO_PG afterwards
Handled(raised, pg_type, varbinary_cols, unknown_cols, logs, registry) ==
    [raised |-> raised, pg_type |-> pg_type, varbinary_cols |-> varbinary_cols,
     unknown_cols |-> unknown_cols, logs |-> logs, registry |-> registry]

FailedToParse(name) ==
    Log("error", "Failed to parse precision and scale from Dune result: %s", <<name>>)

\* where _handle_column_types stands after one of its blocks: the exception
\* raised so far, DUNE_TO_PG, the lines logged
Step(raised, registry, logs) == [raised |-> raised, registry |-> registry, logs |-> logs]

\* "Handle varchar types": matched is re.match(VARCHAR_PATTERN, d_type),
\* length is _parse_varchar_type(d_type)
HandleVarchar(registry, name, d_type, matched, length) ==
    IF ~matched THEN Step("none", registry, <<>>)
    ELSE IF length.kind = "raised" THEN Step(length.v, registry, <<>>)
    ELSE IF length # None THEN Step("none", setitem(registry, d_type, VARCHAR), <<>>)
    ELSE Step("none", registry, <<FailedToParse(name)>>)

\* "Handle decimal types": matched is re.match(DECIMAL_PATTERN, d_type),
\* parsed is _parse_decimal_type(d_type); `if precision and scale`
HandleDecimal(step, name, d_type, matched, parsed) ==
    IF step.raised # "none" \/ ~matched THEN step
    ELSE IF parsed[1].kind = "raised" THEN [step EXCEPT !.raised = parsed[1].v]
    ELSE IF parsed[2].kind = "raised" THEN [step EXCEPT !.raised = parsed[2].v]
    ELSE IF Truthy(parsed[1]) /\ Truthy(parsed[2])
    THEN [step EXCEPT !.registry = setitem(@, d_type, Numeric(parsed[1].v, parsed[2].v))]
    ELSE [step EXCEPT !.logs = Append(@, FailedToParse(name))]

\* "Handle unknown types" and "Track varbinary columns": pg_type is
\* DUNE_TO_PG.get(d_type)
HandleUnknown(step, name, d_type, pg_type) ==
    IF step.raised # "none"
    THEN Handled(step.raised, NoType, <<>>, <<>>, step.logs, step.registry)
    ELSE IF pg_type = NoType
    THEN Handled("none", JSONB,
                 IF d_type = varbinary THEN <<name>> ELSE <<>>, <<name>>,
                 Append(step.logs,
                        Log("warning", "Unknown column: %s - treating as JSONB", <<d_type>>)),
                 step.registry)
    ELSE Handled("none", pg_type,
                 IF d_type = varbinary THEN <<name>> ELSE <<>>, <<>>,
                 step.logs, step.registry)

\* "Get the PostgreSQL type"
GetType(step, name, d_type) ==
    HandleUnknown(step, name, d_type, get(step.registry, d_type))

_handle_column_types(registry, name, d_type) ==
    GetType(HandleDecimal(HandleVarchar(registry, name, d_type,
                                        match_varchar(d_type).matched,
                                        _parse_varchar_type(d_type)),
                          name, d_type, match_decimal(d_type).matched,
                          _parse_decimal_type(d_type)),
            name, d_type)

----------------------------------------------------------------------------
(* Dune source: materializing a result *)

HexDigit ==
    <<"0", "1", "2", "3", "4", "5", "6", "7", "8", "9", "a", "b", "c", "d", "e", "f">>

UpperHexDigit ==
    <<"0", "1", "2", "3", "4", "5", "6", "7", "8", "9", "A", "B", "C", "D", "E", "F">>

HexValue(c) ==
    CHOOSE n \in 0..15 : HexDigit[n + 1] = c \/ UpperHexDigit[n + 1] = c

\* bytes.hex(): two lower-case digits for each byte
hex(b) ==
    [i \in 1..(2 * Len(b)) |->
        IF i % 2 = 1 THEN HexDigit[(b[(i + 1) \div 2] \div 16) + 1]
        ELSE HexDigit[(b[i \div 2] % 16) + 1]]

\* bytes.fromhex(s): ValueError unless s is pairs of hexadecimal digits
fromhex(s) ==
    IF Len(s) % 2 = 0 /\ ToSet(s) \subseteq (ToSet(HexDigit) \cup ToSet(UpperHexDigit))
    THEN PyBytes([i \in 1..(Len(s) \div 2) |->
                    16 * HexValue(s[2 * i - 1]) + HexValue(s[2 * i])])
    ELSE Raised("ValueError")

\* the lambda of _reformat_varbinary_columns without the [2:]
decode_keep_prefix(x) ==
    IF ~notnull(x) THEN x
    ELSE IF x.kind # "str" THEN Raised("TypeError")
    ELSE fromhex(x.v)

\* lambda x: bytes.fromhex(x[2:]) if pd.notnull(x) else x
decode(x) ==
    IF ~notnull(x) THEN x
    ELSE IF x.kind # "str" THEN Raised("TypeError")
    ELSE fromhex(SubSeq(x.v, 3, Len(x.v)))

Chars_null == <<"n", "u", "l", "l">>
Chars_NaN == <<"N", "a", "N">>

\* json.dumps(obj), default separators; the strings here need no escaping
RECURSIVE dumps(_)
RECURSIVE dumps_items(_, _, _)
dumps_items(kind, items, i) ==
    IF i > Len(items) THEN <<>>
    ELSE (IF i > 1 THEN <<",", " ">> ELSE <<>>)
         \o (IF kind = "dict"
             THEN dumps(items[i][1]) \o <<":", " ">> \o dumps(items[i][2])
             ELSE dumps(items[i]))
         \o dumps_items(kind, items, i + 1)

dumps(obj) ==
    CASE obj.kind = "None" -> Chars_null
      [] obj.kind = "float" -> Chars_NaN
      [] obj.kind = "int" -> str(obj.v)
      [] obj.kind = "str" -> <<"\"">> \o obj.v \o <<"\"">>
      [] obj.kind = "list" -> <<"[">> \o dumps_items("list", obj.v, 1) \o <<"]">>
      [] obj.kind = "dict" -> <<"{">> \o dumps_items("dict", obj.v, 1) \o <<"}">>

\* json.dumps as Series.apply hands it every cell
json_dumps(x) ==
    IF x.kind \in {"None", "float", "int", "str", "list", "dict"}
    THEN PyStr(dumps(x))
    ELSE Raised("TypeError")

\* the column names of this model, in the order a frame lists them
ColumnOrder == <<"id", "hash", "data">>

Ordered(names) ==
    LET F[i \in 0..Len(ColumnOrder)] ==
            IF i = 0 THEN <<>>
            ELSE IF ColumnOrder[i] \in names THEN Append(F[i - 1], ColumnOrder[i])
            ELSE F[i - 1]
    IN F[Len(ColumnOrder)]

\* pd.DataFrame(rows) of a list of dicts: the columns are the keys that occur
\* in some row, and a row without a key holds NaN there
DataFrame(rows) ==
    LET keys == UNION {DOMAIN rows[i] : i \in 1..Len(rows)}
    IN [columns |-> Ordered(keys),
        records |-> [i \in 1..Len(rows) |->
                        [c \in keys |-> IF c \in DOMAIN rows[i] THEN rows[i][c] ELSE NaN]]]

\* what a call on a frame comes to
Framed(raised, df) == [raised |-> raised, df |-> df]

\* "0x" + x.tobytes().hex(): only a buffer has tobytes
tohex(x) ==
    IF x.kind = "memoryview" THEN PyStr(<<"0", "x">> \o hex(x.v))
    ELSE Raised("AttributeError")

\* the function a column is mapped with
Cell(how, x) ==
    CASE how = "decode" -> decode(x)
      [] how = "dumps" -> json_dumps(x)
      [] how = "tohex" -> tohex(x)

\* for col in columns: df[col] = df[col].apply(f), from column i on: KeyError
\* when the frame has no such column, f's exception when f raises on a cell
RECURSIVE ApplyTo(_, _, _, _)
ApplyTo(df, columns, i, how) ==
    IF i > Len(columns) THEN Framed("none", df)
    ELSE LET col == columns[i]
             cells == [r \in 1..Len(df.records) |-> Cell(how, df.records[r][col])]
             failed == {r \in 1..Len(df.records) : cells[r].kind = "raised"}
         IN IF col \notin ToSet(df.columns) THEN Framed("KeyError", df)
            ELSE IF failed # {}
            THEN Framed(cells[CHOOSE r \in failed : \A q \in failed : r <= q].v, df)
            ELSE ApplyTo([df EXCEPT !.records =
                            [r \in 1..Len(df.records) |->
                                [df.records[r] EXCEPT ![col] = cells[r]]]],
                         columns, i + 1, how)

_reformat_varbinary_columns(df, varbinary_cols) ==
    ApplyTo(df, varbinary_cols, 1, "decode")

_reformat_unknown_columns(df, unknown_cols) ==
    ApplyTo(df, unknown_cols, 1, "dumps")

\* what dune_result_to_df comes to: the exception raised ("none" when it
\* returned), the TypedDataFrame returned, the lines logged, DUNE_TO_PG afterwards
Materialized(raised, data, logs, registry) ==
    [raised |-> raised, data |-> data, logs |-> logs, registry |-> registry]

\* where the loop of dune_result_to_df stands
Columns(raised, dtypes, varbinary_cols, unknown_cols, logs, registry) ==
    [raised |-> raised, dtypes |-> dtypes, varbinary_cols |-> varbinary_cols,
     unknown_cols |-> unknown_cols, logs |-> logs, registry |-> registry]

\* the body of the loop, h being _handle_column_types(name, d_type)
Accumulate(acc, name, h) ==
    IF h.raised # "none" THEN [acc EXCEPT !.raised = h.raised, !.registry = h.registry]
    ELSE Columns("none", (name :> h.pg_type) @@ acc.dtypes,
                 acc.varbinary_cols \o h.varbinary_cols,
                 acc.unknown_cols \o h.unknown_cols,
                 acc.logs \o h.logs, h.registry)

\* the loop over zip(column_names, column_types, strict=False) from column i on
RECURSIVE HandleColumns(_, _, _)
HandleColumns(metadata, i, acc) ==
    IF i > Len(metadata.column_names) \/ i > Len(metadata.column_types) THEN acc
    ELSE IF acc.raised # "none" THEN acc
    ELSE HandleColumns(metadata, i + 1,
            Accumulate(acc, metadata.column_names[i],
                       _handle_column_types(acc.registry, metadata.column_names[i],
                                            metadata.column_types[i])))

\* return TypedDataFrame(df, dtypes)
TypedDataFrame(typed, unknown) ==
    IF unknown.raised # "none"
    THEN Materialized(unknown.raised, EmptyFrame, typed.logs, typed.registry)
    ELSE Materialized("none", Frame(unknown.df.columns, unknown.df.records, typed.dtypes),
                      typed.logs, typed.registry)

\* df = _reformat_unknown_columns(df, unknown_cols)
ReformatUnknown(typed, binary) ==
    IF binary.raised # "none"
    THEN Materialized(binary.raised, EmptyFrame, typed.logs, typed.registry)
    ELSE TypedDataFrame(typed, _reformat_unknown_columns(binary.df, typed.unknown_cols))

\* df = _reformat_varbinary_columns(df, varbinary_cols)
ReformatVarbinary(typed, df) ==
    IF typed.raised # "none"
    THEN Materialized(typed.raised, EmptyFrame, typed.logs, typed.registry)
    ELSE ReformatUnknown(typed, _reformat_varbinary_columns(df, typed.varbinary_cols))

dune_result_to_df(registry, result) ==
    ReformatVarbinary(HandleColumns(result.metadata, 1,
                                    Columns("none", <<>>, <<>>, <<>>, <<>>, registry)),
                      DataFrame(result.rows))

\* sources/postgres.py: every column whose first cell is a buffer is mapped
_convert_bytea_to_hex(df) ==
    IF empty(df) THEN Framed("none", df)
    ELSE LET IsBuffer(column) == df.records[1][column].kind = "memoryview"
         IN ApplyTo(df, SelectSeq(df.columns, IsBuffer), 1, "tohex")

----------------------------------------------------------------------------
(* Dune source: inputs *)

MaxPrecision == 10      \* the largest precision of a decimal(P,S) type string
MaxScale == 1           \* the largest scale of a decimal(P,S) type string
MaxCached == 1          \* parametrized types one process adds to DUNE_TO_PG
MaxResultRows == 2      \* rows of one query result

\* f"decimal({P},{S})", with `spaces` blanks after the comma
Decimal(P, S, spaces) ==
    <<"decimal", "(">> \o str(P) \o <<",">> \o [i \in 1..spaces |-> " "]
        \o str(S) \o <<")">>

Varchar(n) == <<"varchar", "(">> \o str(n) \o <<")">>

DecimalStrings ==
    {Decimal(P, S, spaces) : P \in 0..MaxPrecision, S \in 0..MaxScale, spaces \in 0..1}

map_varchar_integer == <<"map", "(", "varchar", ",", "integer", ")">>

\* the empty string, unknown names, decimal and varchar syntax gone wrong
Malformed ==
    {<<>>, map_varchar_integer, <<"DECIMAL", "(", "1", ",", "2", ")">>,
     <<"decimal">>, <<"decimal", "(">>, <<"decimal", "(", ",", "2", ")">>,
     <<"decimal", "(", "1", ",", ")">>, <<"decimal", "(", "1", "2", ")">>,
     <<"decimal", "(", "1", ",", "2">>, <<"decimal", "(", "1", ",", "2", ")", "x">>,
     <<"decimal", "(", "0", "1", ",", "0", "2", ")">>,
     <<" ", "decimal", "(", "1", ",", "2", ")">>,
     <<"varchar", "(", ")">>, <<"varchar", "(", "x", ")">>, <<"varchar", "(", "1">>}

TypeStrings ==
    DOMAIN StaticTypes \cup DecimalStrings \cup {Varchar(0), Varchar(255)} \cup Malformed

\* the bytes of "H", of 0xabcd, of 0x00ff, and no bytes
ByteStrings == {<<>>, <<72>>, <<171, 205>>, <<0, 255>>}

\* the wire value of a varbinary cell
Wire(b) == PyStr(<<"0", "x">> \o hex(b))

\* {"a": [1, "b"]}
NestedCell == PyDict(<< <<PyStr(<<"a">>), PyList(<<PyInt(1), PyStr(<<"b">>)>>)>> >>)

\* the cells a column of a query result may hold
Cells(name) ==
    CASE name = "id" -> {PyInt(1)}
      [] name = "hash" -> {Wire(b) : b \in ByteStrings} \cup {None}
      [] name = "data" -> {NestedCell, None}

\* column_names and column_types of a query result
Metadata(column_names, column_types) ==
    [column_names |-> column_names, column_types |-> column_types]

Metadatas ==
    {Metadata(<<"id">>, <<bigint>>),
     Metadata(<<"hash">>, <<varbinary>>),
     Metadata(<<"id", "hash">>, <<bigint, varbinary>>),
     Metadata(<<"data">>, <<map_varchar_integer>>),
     Metadata(<<"id", "data">>, <<bigint, map_varchar_integer>>),
     Metadata(<<"data", "id">>, <<Decimal(38, 0, 0), bigint>>),
     Metadata(<<"id", "data">>, <<bigint, Decimal(12, 7, 1)>>)}

\* an ExecutionResult: rows are dicts keyed by column name
ExecutionResult(rows, metadata) == [rows |-> rows, metadata |-> metadata]

RowsOf(metadata) ==
    LET names == ToSet(metadata.column_names)
        Full == {row \in [names -> UNION {Cells(n) : n \in names}] :
                    \A n \in names : row[n] \in Cells(n)}
    IN SeqsUpTo(Full, MaxResultRows)

ExecutionResults ==
    UNION {{ExecutionResult(rows, metadata) : rows \in RowsOf(metadata)} :
            metadata \in Metadatas}

\* what pd.read_sql_query hands to _convert_bytea_to_hex: a BYTEA column
\* arrives as buffers, NULL as None
FetchedRows ==
    {[id |-> PyInt(1), hash |-> memoryview(b)] : b \in ByteStrings}
        \cup {[id |-> PyInt(1), hash |-> None]}

FetchedFrames == {DataFrame(rows) : rows \in SeqsUpTo(FetchedRows, MaxResultRows)}

----------------------------------------------------------------------------
(* The state machine *)

Call(op, config, data, found, raised, ret, logs) ==
    [op |-> op, config |-> config, data |-> data, found |-> found,
     raised |-> raised, ret |-> ret, logs |-> logs]

\* a call into a source: dune_result_to_df, _handle_column_types, ...
SourceCall(op, args, raised, ret, logs) ==
    [op |-> op, args |-> args, raised |-> raised, ret |-> ret, logs |-> logs]

\* a Job.run: where it stands, the response fetch was given, the data fetched,
\* the calls of destination.save, the exception that left it, the lines logged
Running(pc, response, data, saves, raised, logs) ==
    [pc |-> pc, response |-> response, data |-> data, saves |-> saves,
     raised |-> raised, logs |-> logs]

\* a call of RuntimeConfig(jobs): the jobs given, the exception raised, the
\* names its message lists, the object made (None when it raised)
Loaded(jobs, raised, duplicates, config) ==
    [jobs |-> jobs, raised |-> raised, duplicates |-> duplicates, config |-> config]

\* a DuneDestination and its last call: where it stands, its fields, the
\* exception that left the call, the value returned, the lines logged, the calls
\* made on the client, whether the table name was split in two
Dune(pc, table_name, insertion_type, raised, ret, logs, calls, unpacked) ==
    [pc |-> pc, table_name |-> table_name, insertion_type |-> insertion_type,
     raised |-> raised, ret |-> ret, logs |-> logs, calls |-> calls,
     unpacked |-> unpacked]

\* what a save can tell of a table without reading its rows
Summary(table) ==
    [exists |-> table.exists, schema |-> table.schema, constraints |-> table.constraints]

\* the saves of one object: none yet, one ("once") or two ("again"); how the
\* last one left the table; whether it found the table otherwise than the one
\* before had left it; whether every save so far found the table as the one
\* before had left it and the first found none
Saves(saves, left, moved, intact) ==
    [saves |-> saves, left |-> left, moved |-> moved, intact |-> intact]

\* an object that has not been saved to
NoHistory ==
    Saves("none", [exists |-> FALSE, schema |-> <<>>, constraints |-> {}], FALSE, TRUE)

\* a wrapped call: where it stands, PROMETHEUS_PUSHGATEWAY_URL as read, the job
\* name, what the run came to, the flag success, the calls of push_to_gateway,
\* the exception that leaves the wrapper ("none" when it returns)
Wrapped(pc, url, name, outcome, success, pushes, raised) ==
    [pc |-> pc, url |-> url, name |-> name, outcome |-> outcome, success |-> success,
     pushes |-> pushes, raised |-> raised]

\* no wrapped call yet
NoWrapper == Wrapped("idle", "unset", "none", "none", FALSE, <<>>, "none")

\* a DuneSource's fetch: where it stands, the client sessions opened and not
\* closed, the response of the refresh, the exception that leaves fetch
Fetching(pc, open, response, raised) ==
    [pc |-> pc, open |-> open, response |-> response, raised |-> raised]

\* a source that has not fetched
NoSession == Fetching("idle", 0, [result |-> None], "none")

\* an execution of main(): where it stands, config.jobs, the positions in
\* config.jobs of the tasks that completed (in the order they completed), one
\* report per loop iteration, the exception that leaves main
Executing(pc, jobs, completed, reports, raised) ==
    [pc |-> pc, jobs |-> jobs, completed |-> completed, reports |-> reports,
     raised |-> raised]

\* main() has not been called
NoProgram == Executing("idle", <<>>, <<>>, <<>>, "none")

\* the Dune client before any save
NoClient ==
    [delete_table |-> "none", run_query |-> "none", create_table |-> "none",
     insert_table |-> "none"]

\* no DuneDestination
NoDune == Dune("none", <<>>, "none", "none", 0, <<>>, <<>>, FALSE)

\* no call into a source is under way
NoSourceCall == SourceCall("none", <<>>, "none", <<>>, <<>>)

Init ==
    /\ db = NoTable
    /\ dest = NoDest
    /\ last = Call("none", NoDest, EmptyFrame, NoTable, "none", 0, <<>>)
    /\ DUNE_TO_PG = StaticTypes
    /\ call = NoSourceCall
    /\ run = Running("idle", [result |-> None], EmptyFrame, 0, "none", <<>>)
    /\ runtime = Loaded(<<>>, "none", {}, None)
    /\ dune = NoDune
    /\ dune_client = NoClient
    /\ history = NoHistory
    /\ wrapper = NoWrapper
    /\ session = NoSession
    /\ program = NoProgram

\* PostgresDestination(db_url, table_name, if_exists, index_columns):
\* Validate.__init__ raises ValueError when validate() is false
Construct ==
    \E c \in Configurations :
        LET self == Config(c[1], c[2], c[3])
            checked == validate(self)
        IN /\ dest' = IF checked.ok THEN self ELSE NoDest
           /\ last' = Call("__init__", self, EmptyFrame, db,
                           IF checked.ok THEN "none" ELSE "ValueError", 0, checked.logs)
           /\ UNCHANGED <<db, sourceVars, run, runtime, dune, dune_client, history, wrapper, session, program>>

\* the driver may send an upsert batch as one multi-VALUES command or row by row
Drivers(self) == IF self.if_exists = "upsert" THEN BOOLEAN ELSE {FALSE}

\* Job.run: dest.save(data), once per run
Save ==
    /\ dest # NoDest
    /\ last.op # "save"
    /\ \E df \in DataFrames :
       \E multirow \in Drivers(dest), fault \in 0..Len(df.records) :
        LET done == save(dest, db, df, multirow, fault)
        IN /\ BagCardinality(done.table.rows) <= MaxRows
           /\ db' = done.table
           /\ last' = Call("save", dest, df, db, done.raised, done.ret, done.logs)
           /\ UNCHANGED <<dest, sourceVars, run, runtime, dune, dune_client, history, wrapper, session, program>>

\* another client changes the table between calls
External(table) ==
    /\ db' = table
    /\ last' = Call("external", NoDest, EmptyFrame, NoTable, "none", 0, <<>>)
    /\ UNCHANGED <<dest, sourceVars, run, runtime, dune, dune_client, history, wrapper, session, program>>

\* tests/db_util.py drop_table: DROP TABLE IF EXISTS
ExtDropTable == db.exists /\ External(NoTable)

\* raw_exec: ALTER TABLE ... ADD CONSTRAINT ... UNIQUE (...)
ExtAddConstraint ==
    \E k \in ConstraintChoices :
        /\ db.exists
        /\ k \notin db.constraints
        /\ ToSet(k) \subseteq DOMAIN db.schema
        /\ UniqueOn(db.rows, k)
        /\ External([db EXCEPT !.constraints = @ \cup {k}])

\* raw_exec: ALTER TABLE ... DROP CONSTRAINT ...
ExtDropConstraint ==
    \E k \in db.constraints :
        External([db EXCEPT !.constraints = @ \ {k}])

Next ==
    \/ Construct
    \/ Save
    \/ ExtDropTable
    \/ ExtAddConstraint
    \/ ExtDropConstraint

Spec == Init /\ [][Next]_vars

----------------------------------------------------------------------------
(* PostgresDestination: two saves to one object *)

\* the object is constructed once, with a policy that handles conflicts
ConstructOnce ==
    /\ dest = NoDest
    /\ history = NoHistory
    /\ Construct
    /\ dest'.if_exists \in {"upsert", "insert_ignore", "none"}

Resaved(df, done) ==
    /\ BagCardinality(done.table.rows) <= MaxRows
    /\ db' = done.table
    /\ last' = Call("save", dest, df, db, done.raised, done.ret, done.logs)
    /\ history' = Saves(IF history.saves = "none" THEN "once" ELSE "again",
                        Summary(done.table),
                        history.saves # "none" /\ Summary(db) # history.left,
                        history.intact /\ Summary(db) = history.left)
    /\ UNCHANGED <<dest, sourceVars, run, runtime, dune, dune_client, wrapper, session, program>>

\* a save that takes the unique constraints from what the save before left
Resave_cached ==
    /\ dest # NoDest
    /\ history.saves # "again"
    /\ \E df \in DataFrames :
       \E multirow \in Drivers(dest), fault \in 0..Len(df.records) :
          Resaved(df, save(dest,
                           IF history.left.exists /\ db.exists
                           THEN [db EXCEPT !.constraints = history.left.constraints]
                           ELSE db,
                           df, multirow, fault))

\* dest.save(data), a first and a second time on the same object
Resave ==
    /\ dest # NoDest
    /\ history.saves # "again"
    /\ \E df \in DataFrames :
       \E multirow \in Drivers(dest), fault \in 0..Len(df.records) :
          Resaved(df, save(dest, db, df, multirow, fault))

\* tests/db_util.py create_table: CREATE TABLE IF NOT EXISTS ... (id SERIAL, value TEXT)
ExtCreateTable ==
    /\ ~db.exists
    /\ External([exists |-> TRUE, schema |-> [id |-> "SERIAL", value |-> "TEXT"],
                 rows |-> EmptyBag, constraints |-> {}])

ResaveNext ==
    \/ ConstructOnce
    \/ Resave
    \/ ExtCreateTable
    \/ ExtDropTable
    \/ ExtAddConstraint
    \/ ExtDropConstraint

ResaveSpec == Init /\ [][ResaveNext]_vars

----------------------------------------------------------------------------
(* Dune source: the state machines *)

\* the caller takes what the call came to
Return ==
    /\ call # NoSourceCall
    /\ call' = NoSourceCall
    /\ UNCHANGED <<postgresVars, DUNE_TO_PG, run, runtime, dune, dune_client, history, wrapper, session, program>>

\* the call returns or raises: DUNE_TO_PG is what the call left, as long as
\* it holds no more than MaxCached added types
Called(op, args, done, ret) ==
    /\ call = NoSourceCall
    /\ Cardinality(DOMAIN done.registry) <= Cardinality(DOMAIN StaticTypes) + MaxCached
    /\ DUNE_TO_PG' = done.registry
    /\ call' = SourceCall(op, args, done.raised, ret, done.logs)
    /\ UNCHANGED <<postgresVars, run, runtime, dune, dune_client, history, wrapper, session, program>>

ResolveCalled(name, d_type, h) ==
    Called("_handle_column_types", <<name, d_type>>, h,
           <<h.pg_type, h.varbinary_cols, h.unknown_cols>>)

\* one process resolving column types: _handle_column_types(name, d_type)
Resolve ==
    \E d_type \in TypeStrings :
        ResolveCalled("dec_col", d_type, _handle_column_types(DUNE_TO_PG, "dec_col", d_type))

TypesNext ==
    \/ Resolve
    \/ Return

TypesSpec == Init /\ [][TypesNext]_vars

MaterializeCalled(result, m) == Called("dune_result_to_df", result, m, m.data)

\* dune_result_to_df(result)
Materialize ==
    \E result \in ExecutionResults :
        MaterializeCalled(result, dune_result_to_df(DUNE_TO_PG, result))

ConvertCalled(df, converted) ==
    /\ call = NoSourceCall
    /\ call' = SourceCall("_convert_bytea_to_hex", df, converted.raised, converted.df, <<>>)
    /\ UNCHANGED <<postgresVars, DUNE_TO_PG, run, runtime, dune, dune_client, history, wrapper, session, program>>

\* PostgresSource.fetch: _convert_bytea_to_hex(df) on what the query returned
ConvertBytea ==
    \E df \in FetchedFrames : ConvertCalled(df, _convert_bytea_to_hex(df))

SourceNext ==
    \/ Materialize
    \/ ConvertBytea
    \/ Return

SourceSpec == Init /\ [][SourceNext]_vars

----------------------------------------------------------------------------
(* Reading the last call *)

Saved == last.op = "save"
Returned == last.raised = "none"
NonEmpty == ~(Len(last.data.records) = 0 \/ Len(last.data.columns) = 0)
Policy == last.config.if_exists
Index == last.config.index_columns
Records == last.data.records
Found == last.found

\* the table as found exists and carries a unique constraint on exactly the index columns
Constrained ==
    /\ Found.exists
    /\ \E k \in Found.constraints : ToSet(k) = ToSet(Index)

\* the i-th incoming record as a row of the table found
Incoming(i) ==
    [c \in DOMAIN Found.schema |->
        IF c \in DOMAIN Records[i] THEN Records[i][c] ELSE NULL]

SameKey(r, s) == \A c \in ToSet(Index) : r[c] = s[c]
NullKey(r) == \E c \in ToSet(Index) : r[c] = NULL

\* exactly one row of the bag carries the key of s, and it agrees with rec
\* on every column rec has
OneRowAs(rows, s, rec) ==
    \E r \in BagToSet(rows) :
        /\ SameKey(r, s)
        /\ CopiesIn(r, rows) = 1
        /\ \A q \in BagToSet(rows) : SameKey(q, s) => q = r
        /\ \A c \in DOMAIN rec : r[c] = rec[c]

FirstWith(i) == CHOOSE j \in 1..Len(Records) :
    /\ SameKey(Incoming(j), Incoming(i))
    /\ \A k \in 1..Len(Records) : SameKey(Incoming(k), Incoming(i)) => j <= k

LastWith(i) == CHOOSE j \in 1..Len(Records) :
    /\ SameKey(Incoming(j), Incoming(i))
    /\ \A k \in 1..Len(Records) : SameKey(Incoming(k), Incoming(i)) => k <= j

Times(rec) == Cardinality({i \in 1..Len(Records) : Records[i] = rec})

UpsertDone ==
    Saved /\ Returned /\ NonEmpty /\ Policy = "upsert" /\ Constrained

IgnoreDone ==
    Saved /\ Returned /\ NonEmpty /\ Policy = "insert_ignore" /\ Constrained

----------------------------------------------------------------------------
(* C1 *)

----------------------------------------------------------------------------
(* C2 *)

\* C2 as stated: after an insert_ignore into a constrained table, every row
\* found whose key matches an incoming row is unchanged, and every incoming
\* row whose key was not there before is in the table, its key exactly once.
C2_AsStated ==
    IgnoreDone =>
        /\ \A r \in BagToSet(Found.rows) :
            (\E i \in 1..Len(Records) : SameKey(r, Incoming(i))) =>
                CopiesIn(r, db.rows) >= CopiesIn(r, Found.rows)
        /\ \A i \in 1..Len(Records) :
            (\A r \in BagToSet(Found.rows) : ~SameKey(r, Incoming(i))) =>
                /\ CopiesIn(Incoming(i), db.rows) >= 1
                /\ ~NullKey(Incoming(i)) =>
                        OneRowAs(db.rows, Incoming(i), Records[i])

\* C2 (amended): after an insert_ignore into a constrained table that
\* returns, every row found is still there unchanged; every incoming key
\* without NULL that was not there before occurs in exactly one row, which is
\* the first incoming row with that key; rows with a NULL key are all inserted.
C2_InsertIgnore ==
    IgnoreDone =>
        /\ Found.rows \sqsubseteq db.rows
        /\ \A i \in 1..Len(Records) :
            IF NullKey(Incoming(i))
            THEN CopiesIn(Incoming(i), db.rows) =
                    CopiesIn(Incoming(i), Found.rows) + Times(Records[i])
            ELSE IF \E r \in BagToSet(Found.rows) : SameKey(r, Incoming(i))
            THEN \A r \in BagToSet(db.rows) :
                    SameKey(r, Incoming(i)) => CopiesIn(r, Found.rows) = 1
            ELSE /\ OneRowAs(db.rows, Incoming(i), Records[FirstWith(i)])
                 /\ CopiesIn(Incoming(FirstWith(i)), db.rows) = 1

\* an insert_ignore skipped a conflicting row and inserted a new one
C2_Witness ==
    /\ IgnoreDone
    /\ \E i, j \in 1..Len(Records), r \in BagToSet(Found.rows) :
        /\ ~NullKey(r) /\ SameKey(r, Incoming(i)) /\ r # Incoming(i)
        /\ CopiesIn(r, db.rows) = 1
        /\ CopiesIn(Incoming(j), Found.rows) = 0
        /\ CopiesIn(Incoming(j), db.rows) = 1

----------------------------------------------------------------------------
(* C3 *)

Logged(level, msg) ==
    \E i \in 1..Len(last.logs) : last.logs[i].level = level /\ last.logs[i].msg = msg

\* the ALTER TABLE <table> ADD CONSTRAINT ... UNIQUE (<index columns>) line
LoggedAlterTable ==
    \E i \in 1..Len(last.logs) :
        /\ last.logs[i].level = "error"
        /\ Len(last.logs[i].args) = 6
        /\ last.logs[i].args[1] = "ALTER TABLE"
        /\ last.logs[i].args[2] = last.config.table_name
        /\ last.logs[i].args[3] = "ADD CONSTRAINT"
        /\ last.logs[i].args[5] = "UNIQUE"
        /\ last.logs[i].args[6] = Index

ConflictSave ==
    Saved /\ NonEmpty /\ Policy \in {"upsert", "insert_ignore"} /\ Found.exists

\* C3: an upsert / insert_ignore save of a batch into an existing table goes
\* on to the write exactly when some unique constraint of the table has the
\* index columns as its column set; otherwise it raises ValueError, logs the
\* ALTER TABLE statement, and leaves the table as it found it.
C3_ConstraintGate ==
    ConflictSave =>
        IF \E k \in Found.constraints : ToSet(k) = ToSet(Index)
        THEN last.raised # "ValueError" /\ ~LoggedAlterTable
        ELSE /\ last.raised = "ValueError"
             /\ LoggedAlterTable
             /\ db = Found

\* refused although the table has a constraint on one of the two index columns
C3_Witness ==
    /\ ConflictSave
    /\ last.raised = "ValueError"
    /\ Index = <<"value", "id">>
    /\ Found.constraints = {<<"id">>}
    /\ BagCardinality(Found.rows) > 0

----------------------------------------------------------------------------
(* C4 *)

\* C4: an upsert / insert_ignore save of a batch when the table does not
\* exist never raises ValueError nor logs the constraint advice, and when it
\* returns the table exists with the frame's columns, holds exactly the
\* incoming rows, has no constraint, and the count returned is the number of
\* incoming rows.
C4_Bootstrap ==
    (Saved /\ NonEmpty /\ Policy \in {"upsert", "insert_ignore"} /\ ~Found.exists) =>
        /\ last.raised # "ValueError"
        /\ ~LoggedAlterTable
        /\ Returned =>
            /\ db.exists
            /\ DOMAIN db.schema = ToSet(last.data.columns)
            /\ \A c \in DOMAIN last.data.dtypes : db.schema[c] = last.data.dtypes[c]
            /\ BagCardinality(db.rows) = Len(Records)
            /\ \A i \in 1..Len(Records) :
                CopiesIn(Records[i], db.rows) = Times(Records[i])
            /\ last.ret = Len(Records)

\* an upsert bootstrapped the table with a batch that repeats a key
C4_Witness ==
    /\ Saved /\ NonEmpty /\ Returned /\ Policy = "upsert" /\ ~Found.exists
    /\ Len(Records) = 2
    /\ Records[1]["id"] = Records[2]["id"]
    /\ db.exists

----------------------------------------------------------------------------
(* C5, C6 *)

Constructing == last.op = "__init__"

\* C5 as stated: constructing with upsert and no index columns raises
\* ValueError, logs 'Upsert without index columns.' and leaves no object.
C5_AsStated ==
    (Constructing /\ Policy = "upsert" /\ Len(Index) = 0) =>
        /\ last.raised = "ValueError"
        /\ Logged("error", "Upsert without index columns.")
        /\ dest = NoDest

\* C5 (amended): constructing with upsert and no index columns raises
\* ValueError and leaves no object; it logs 'Upsert without index columns.'
\* when the destination's schema exists and the missing-schema error when it
\* does not; no destination object is ever an upsert without index columns.
C5_UpsertNeedsIndex ==
    /\ (Constructing /\ Policy = "upsert" /\ Len(Index) = 0) =>
        /\ last.raised = "ValueError"
        /\ dest = NoDest
        /\ IF last.config.schema \in AvailableSchemas
           THEN Logged("error", "Upsert without index columns.")
           ELSE Logged("error", "Schema does not exist")
    /\ ~(dest.if_exists = "upsert" /\ Len(dest.index_columns) = 0)

\* the constructor refused an upsert without index columns on an existing schema
C5_Witness ==
    /\ Constructing /\ Policy = "upsert" /\ Len(Index) = 0
    /\ last.config.schema = "public"
    /\ last.raised = "ValueError"

\* C6: constructing with insert_ignore and no index columns raises, so no
\* destination object is an insert_ignore without index columns and no save
\* is reached with one.
C6_InsertIgnoreNeedsIndex ==
    /\ (Constructing /\ Policy = "insert_ignore" /\ Len(Index) = 0) =>
        last.raised = "ValueError"
    /\ ~(dest.if_exists = "insert_ignore" /\ Len(dest.index_columns) = 0)
    /\ ~(Saved /\ Policy = "insert_ignore" /\ Len(Index) = 0)

----------------------------------------------------------------------------
(* C7 *)

\* C7: a save of an empty frame, under any policy, returns 0, logs the
\* warning, raises nothing, and leaves the table exactly as it found it.
C7_EmptySave ==
    (Saved /\ ~NonEmpty) =>
        /\ last.raised = "none"
        /\ last.ret = 0
        /\ Logged("warning", "DataFrame is empty. Skipping save to PostgreSQL.")
        /\ db = Found

\* a replace destination was given a frame with columns but no rows, over a
\* table that holds rows
C7_Witness ==
    /\ Saved /\ ~NonEmpty
    /\ Policy = "replace"
    /\ Len(last.data.columns) > 0
    /\ Found.exists /\ BagCardinality(Found.rows) > 0
    /\ db = Found

----------------------------------------------------------------------------
(* C8 *)

\* the table holds the incoming rows and nothing else
HoldsExactlyTheBatch ==
    /\ BagCardinality(db.rows) = Len(Records)
    /\ \A i \in 1..Len(Records) : CopiesIn(Records[i], db.rows) = Times(Records[i])

\* the table's columns are the frame's, typed as dtypes says or as inferred
SchemaOfTheBatch ==
    /\ DOMAIN db.schema = ToSet(last.data.columns)
    /\ \A c \in DOMAIN db.schema :
        db.schema[c] = IF c \in DOMAIN last.data.dtypes
                       THEN last.data.dtypes[c] ELSE InferredType(c)

\* C8: after a replace save of a batch that returns, the table exists, its
\* rows are exactly the incoming rows, its columns and types are the frame's,
\* and nothing of the table found (rows, columns, constraints) remains.
C8_Replace ==
    (Saved /\ NonEmpty /\ Returned /\ Policy = "replace") =>
        /\ db.exists
        /\ HoldsExactlyTheBatch
        /\ SchemaOfTheBatch
        /\ db.constraints = {}
        /\ last.ret = Len(Records)

\* replace over a table with other rows, another column and a constraint
C8_Witness ==
    /\ Saved /\ NonEmpty /\ Returned /\ Policy = "replace"
    /\ Found.exists
    /\ "value" \in DOMAIN Found.schema
    /\ last.data.columns = <<"id">>
    /\ Found.constraints # {}
    /\ \E r \in BagToSet(Found.rows) : r["id"] = "2"

----------------------------------------------------------------------------
(* C9 *)

----------------------------------------------------------------------------
(* C10 *)

----------------------------------------------------------------------------
(* Job.run: fetch from a Dune source, save to a destination *)

\* the response of client.refresh: its result, None when the execution ended
\* without one
ResultsResponse(result) == [result |-> result]

Responses ==
    {ResultsResponse(None)} \cup {ResultsResponse(result) : result \in ExecutionResults}

\* DuneSource.fetch once the refresh has returned `response`
fetch(registry, response) ==
    IF response.result = None
    THEN Materialized("ValueError", EmptyFrame, <<>>, registry)
    ELSE dune_result_to_df(registry, response.result)

\* a source that calls no data empty
is_empty_never(data) == FALSE

\* DuneSource.is_empty: TypedDataFrame.is_empty(), that is DataFrame.empty
is_empty(data) == empty(data)

\* what destination.save(df) may come to
SaveOutcomes == {"none", "ValueError", "SQLAlchemyError"}

\* log.info("Fetching data for job: %s", self.name); await self.source.fetch()
RunStarts ==
    /\ run.pc \in {"idle", "done", "raised"}
    /\ run' = Running("fetching", ResultsResponse(None), EmptyFrame, 0, "none",
                      <<Log("info", "Fetching data for job: %s", <<"job">>)>>)
    /\ UNCHANGED <<postgresVars, sourceVars, runtime, dune, dune_client, history, wrapper, session, program>>

Fetched(response, f) ==
    /\ run.pc = "fetching"
    /\ Cardinality(DOMAIN f.registry) <= Cardinality(DOMAIN StaticTypes) + MaxCached
    /\ DUNE_TO_PG' = f.registry
    /\ run' = IF f.raised # "none"
              THEN [run EXCEPT !.pc = "raised", !.response = response,
                               !.raised = f.raised, !.logs = @ \o f.logs]
              ELSE [run EXCEPT !.pc = "fetched", !.response = response,
                               !.data = f.data, !.logs = @ \o f.logs]
    /\ UNCHANGED <<postgresVars, call, runtime, dune, dune_client, history, wrapper, session, program>>

\* the awaited fetch returns a TypedDataFrame, or raises out of run
RunFetches ==
    \E response \in Responses : Fetched(response, fetch(DUNE_TO_PG, response))

\* the data is not empty: destination.save(df), which returns or raises
RunSaves ==
    /\ run.pc = "fetched"
    /\ ~is_empty(run.data)
    /\ \E outcome \in SaveOutcomes :
        run' = IF outcome # "none"
               THEN [run EXCEPT !.pc = "raised", !.saves = @ + 1, !.raised = outcome,
                        !.logs = Append(@, Log("info", "Saving data for job: %s", <<"job">>))]
               ELSE [run EXCEPT !.pc = "done", !.saves = @ + 1,
                        !.logs = @ \o <<Log("info", "Saving data for job: %s", <<"job">>),
                                        Log("info", "Completed job: %s", <<"job">>)>>]
    /\ UNCHANGED <<postgresVars, sourceVars, runtime, dune, dune_client, history, wrapper, session, program>>

\* the data is empty: a warning, no write
RunSkips ==
    /\ run.pc = "fetched"
    /\ is_empty(run.data)
    /\ run' = [run EXCEPT !.pc = "done",
                    !.logs = @ \o <<Log("info", "Saving data for job: %s", <<"job">>),
                                    Log("warning", "No query results found! Skipping write",
                                        <<>>)>>]
    /\ UNCHANGED <<postgresVars, sourceVars, runtime, dune, dune_client, history, wrapper, session, program>>

JobNext ==
    \/ RunStarts
    \/ RunFetches
    \/ RunSaves
    \/ RunSkips

JobSpec == Init /\ [][JobNext]_vars

----------------------------------------------------------------------------
(* RuntimeConfig: the jobs of a configuration *)

MaxJobs == 4

JobNames == {"jobName", "other", "third"}

\* Job(name, source, destination), of which the name matters here
Job(name) == [name |-> name]

\* the lists of jobs a configuration file may describe
JobLists ==
    UNION {[1..n -> {Job(name) : name \in JobNames}] : n \in 0..MaxJobs}

\* set(xs)
set(xs) == {xs[i] : i \in 1..Len(xs)}

\* xs.count(x)
count(xs, x) == Cardinality({i \in 1..Len(xs) : xs[i] = x})

\* [job.name for job in self.jobs]
job_names(jobs) == [i \in 1..Len(jobs) |-> jobs[i].name]

\* {name for name in job_names if job_names.count(name) > 1}
duplicates(names) == {name \in set(names) : count(names, name) > 1}

\* a RuntimeConfig that takes any jobs
__post_init__unchecked(jobs) == Loaded(jobs, "none", {}, [jobs |-> jobs])

\* RuntimeConfig(jobs): the dataclass stores jobs, __post_init__ validates
__post_init__(jobs) ==
    IF Len(job_names(jobs)) # Cardinality(set(job_names(jobs)))
    THEN Loaded(jobs, "ValueError", duplicates(job_names(jobs)), None)
    ELSE Loaded(jobs, "none", {}, [jobs |-> jobs])

\* RuntimeConfig.load: build the jobs in the order of the file, then cls(jobs=jobs)
Load ==
    \E jobs \in JobLists :
        /\ runtime' = __post_init__(jobs)
        /\ UNCHANGED <<postgresVars, sourceVars, run, dune, dune_client, history, wrapper, session, program>>

ConfigNext == Load

ConfigSpec == Init /\ [][ConfigNext]_vars

----------------------------------------------------------------------------
(* DuneDestination: construction and save *)

MaxNameLen == 5

\* the characters of a table name: two letters and the separator
NameChars == {"n", "t", "."}

TableNames == UNION {[1..n -> NameChars] : n \in 0..MaxNameLen}

InsertionPolicy == {"append", "replace", "upload_csv"}

\* what the calls on the Dune client come to during one save
Clients ==
    [delete_table : {"deleted", "DuneError"},
     run_query : {"result", "no result", "QueryFailed"},
     create_table : {"created", "refused", "DuneError"},
     insert_table : {"inserted", "DuneError"}]

\* sep in s
contains(s, sep) == \E i \in 1..Len(s) : s[i] = sep

\* index of the first sep in s, which holds one
find(s, sep) == CHOOSE i \in 1..Len(s) : s[i] = sep /\ \A j \in 1..(i - 1) : s[j] # sep

\* s.split(sep)
RECURSIVE split(_, _)
split(s, sep) ==
    IF ~contains(s, sep) THEN <<s>>
    ELSE <<SubSeq(s, 1, find(s, sep) - 1)>>
             \o split(SubSeq(s, find(s, sep) + 1, Len(s)), sep)

\* DuneDestination(api_key, table_name, request_timeout, insertion_type)
DuneDestination(table_name, insertion_type) ==
    IF ~contains(table_name, ".")
    THEN Dune("rejected", table_name, insertion_type, "ValueError", 0, <<>>, <<>>, FALSE)
    ELSE Dune("constructed", table_name, insertion_type, "none", 0, <<>>, <<>>, FALSE)

\* where an upload stands: the exception under way, the lines logged, the calls
\* made on the client, whether the table name was split in two
Uploading(raised, logs, calls, unpacked) ==
    [raised |-> raised, logs |-> logs, calls |-> calls, unpacked |-> unpacked]

\* namespace, table_name = self.table_name.split("."): two targets
_get_namespace_and_table_name(self, logs) ==
    IF Len(split(self.table_name, ".")) = 2
    THEN Uploading("none", logs, <<>>, TRUE)
    ELSE Uploading("ValueError", logs, <<>>, FALSE)

\* if self.insertion_type == "replace": delete the table
Deleted(u, self, client) ==
    IF u.raised # "none" \/ self.insertion_type # "replace" THEN u
    ELSE IF client.delete_table = "DuneError"
    THEN [u EXCEPT !.raised = "DuneError", !.calls = Append(@, "delete_table"),
                   !.logs = @ \o <<Log("warning", "Replacement feature is unstable!", <<>>),
                                   Log("info", "Deleting table: %s", <<>>)>>]
    ELSE [u EXCEPT !.calls = Append(@, "delete_table"),
                   !.logs = @ \o <<Log("warning", "Replacement feature is unstable!", <<>>),
                                   Log("info", "Deleting table: %s", <<>>),
                                   Log("info", "Deleted: %s", <<>>)>>]

\* a creation whose refusal is not looked at
Created_unchecked(u, self, client) ==
    IF u.raised # "none" THEN u
    ELSE IF client.run_query = "result"
    THEN [u EXCEPT !.calls = Append(@, "run_query")]
    ELSE [u EXCEPT !.raised = IF client.create_table = "DuneError" THEN "DuneError"
                              ELSE "none",
                   !.calls = @ \o <<"run_query", "create_table">>,
                   !.logs = Append(@, Log("info", "Creating table: %s", <<>>))]

\* if not self._table_exists(): create the table, RuntimeError when refused
Created(u, self, client) ==
    IF u.raised # "none" THEN u
    ELSE IF client.run_query = "result"
    THEN [u EXCEPT !.calls = Append(@, "run_query")]
    ELSE IF client.create_table = "created"
    THEN [u EXCEPT !.calls = @ \o <<"run_query", "create_table">>,
                   !.logs = @ \o <<Log("info", "Creating table: %s", <<>>),
                                   Log("info", "Created: %s", <<>>)>>]
    ELSE [u EXCEPT !.raised = IF client.create_table = "refused" THEN "RuntimeError"
                              ELSE "DuneError",
                   !.calls = @ \o <<"run_query", "create_table">>,
                   !.logs = Append(@, Log("info", "Creating table: %s", <<>>))]

\* self.client.insert_table(namespace, table_name, data, content_type)
Inserted(u, self, client) ==
    IF u.raised # "none" THEN u
    ELSE [u EXCEPT !.raised = IF client.insert_table = "DuneError" THEN "DuneError"
                              ELSE "none",
                   !.calls = Append(@, "insert_table"),
                   !.logs = Append(@, Log("info", "Inserting to: %s", <<>>))]

\* DuneDestination._insert
_insert(self, client, logs) ==
    Inserted(Created(Deleted(_get_namespace_and_table_name(self, logs), self, client),
                     self, client),
             self, client)

\* DuneDestination._upload_csv is handed data.dataframe and reads .dataframe of
\* it again: a DataFrame has no such attribute
_upload_csv(self, logs) == Uploading("AttributeError", logs, <<>>, FALSE)

\* the except clauses of save and its return
Uploaded(self, n, u) ==
    IF u.raised = "none"
    THEN Dune("saved", self.table_name, self.insertion_type, "none", n,
              Append(u.logs, Log("debug", "Inserted DF to Dune, %s", <<>>)),
              u.calls, u.unpacked)
    ELSE IF u.raised = "DuneError"
    THEN Dune("saved", self.table_name, self.insertion_type, "none", n,
              Append(u.logs, Log("error", "Dune did not accept our upload: %s", <<>>)),
              u.calls, u.unpacked)
    ELSE IF u.raised \in {"ValueError", "RuntimeError"}
    THEN Dune("saved", self.table_name, self.insertion_type, "none", n,
              Append(u.logs, Log("error", "Data processing error: %s", <<>>)),
              u.calls, u.unpacked)
    ELSE Dune("saved", self.table_name, self.insertion_type, u.raised, 0, u.logs,
              u.calls, u.unpacked)

\* DuneDestination.save(data), len(data) = n
dune_save(self, n, client) ==
    Uploaded(self, n,
          IF self.insertion_type = "upload_csv"
          THEN _upload_csv(self, <<Log("debug", "Uploading DF to Dune...", <<>>)>>)
          ELSE _insert(self, client, <<Log("debug", "Uploading DF to Dune...", <<>>)>>))

DuneConstruct ==
    /\ dune.pc = "none"
    /\ \E table_name \in TableNames, insertion_type \in InsertionPolicy :
          dune' = DuneDestination(table_name, insertion_type)
    /\ UNCHANGED <<postgresVars, sourceVars, run, runtime, dune_client, history, wrapper, session, program>>

DuneSave ==
    /\ dune.pc = "constructed"
    /\ \E n \in 1..MaxResultRows, c \in Clients :
          /\ dune' = dune_save(dune, n, c)
          /\ dune_client' = c
    /\ UNCHANGED <<postgresVars, sourceVars, run, runtime, history, wrapper, session, program>>

DuneNext ==
    \/ DuneConstruct
    \/ DuneSave

DuneSpec == Init /\ [][DuneNext]_vars

----------------------------------------------------------------------------
(* collect_metrics: Job.run wrapped *)

\* os.getenv("PROMETHEUS_PUSHGATEWAY_URL"): None, the empty string, a URL
PushgatewayUrls == {"unset", "", "http://localhost:9091", "http://pushgateway:9091"}

\* what the wrapped run comes to: it returns, or it raises; CancelledError is
\* a BaseException that is no Exception
RunOutcomes == {"none", "ValueError", "KeyError", "SQLAlchemyError", "CancelledError"}

\* except Exception
IsException(e) == e \notin {"none", "CancelledError"}

\* if not (prometheus_url := env(...))
Configured(url) == url \notin {"unset", ""}

\* what push_to_gateway comes to: the gateway took the metrics, or the request failed
PushOutcomes == {"none", "URLError"}

\* a push that counts no failure
push_to_gateway_success(url, metrics) ==
    [gateway |-> url, job |-> <<"dune-sync-", metrics.name>>, job_failure_count |-> 0]

\* push_to_gateway(gateway=prometheus_url, job=f'dune-sync-{name}', registry):
\* the registry holds job_failure_count = int(not success)
push_to_gateway(url, metrics) ==
    [gateway |-> url, job |-> <<"dune-sync-", metrics.name>>,
     job_failure_count |-> IF metrics.success THEN 0 ELSE 1]

\* job.run() is called: the wrapper reads the environment and awaits the run
WrapperStarts ==
    /\ wrapper.pc \in {"idle", "done"}
    /\ \E url \in PushgatewayUrls, name \in JobNames :
          wrapper' = Wrapped("running", url, name, "none", FALSE, <<>>, "none")
    /\ UNCHANGED <<postgresVars, sourceVars, run, runtime, dune, dune_client, history, session, program>>

\* the awaited run returns or raises; without a gateway that is the outcome,
\* with one success is set and the finally block is entered
WrapperRunEnds ==
    /\ wrapper.pc = "running"
    /\ \E outcome \in RunOutcomes :
          wrapper' = IF ~Configured(wrapper.url)
                     THEN [wrapper EXCEPT !.pc = "done", !.outcome = outcome,
                                          !.raised = outcome]
                     ELSE [wrapper EXCEPT !.pc = "finally", !.outcome = outcome,
                                          !.success = CASE outcome = "none" -> TRUE
                                                        [] IsException(outcome) -> FALSE
                                                        [] OTHER -> wrapper.success]
    /\ UNCHANGED <<postgresVars, sourceVars, run, runtime, dune, dune_client, history, session, program>>

\* finally: log_job_metrics(prometheus_url, metrics); an exception of the push
\* leaves the wrapper in place of what the run came to
WrapperPushes ==
    /\ wrapper.pc = "finally"
    /\ \E pushed \in PushOutcomes :
          wrapper' = [wrapper EXCEPT
                        !.pc = "done",
                        !.pushes = Append(@, push_to_gateway(wrapper.url, wrapper)),
                        !.raised = IF pushed # "none" THEN pushed ELSE wrapper.outcome]
    /\ UNCHANGED <<postgresVars, sourceVars, run, runtime, dune, dune_client, history, session, program>>

MetricsNext ==
    \/ WrapperStarts
    \/ WrapperRunEnds
    \/ WrapperPushes

MetricsSpec == Init /\ [][MetricsNext]_vars

----------------------------------------------------------------------------
(* DuneSource.fetch: connect, refresh, disconnect *)

MaxOpen == 2      \* client sessions one source leaves open

\* what client.refresh raises instead of returning a response
RefreshErrors == {"QueryFailed", "DuneError", "TimeoutError"}

\* await self.client.connect()
FetchConnects ==
    /\ session.pc \in {"idle", "done"}
    /\ session.open < MaxOpen
    /\ session' = Fetching("connected", session.open + 1, [result |-> None], "none")
    /\ UNCHANGED <<postgresVars, sourceVars, run, runtime, dune, dune_client, history, wrapper, program>>

\* response = await self.client.refresh(...): a response, or the exception
\* leaves fetch at once
FetchRefreshes ==
    /\ session.pc = "connected"
    /\ \/ \E response \in Responses :
             session' = [session EXCEPT !.pc = "refreshed", !.response = response]
       \/ \E e \in RefreshErrors :
             session' = [session EXCEPT !.pc = "done", !.raised = e]
    /\ UNCHANGED <<postgresVars, sourceVars, run, runtime, dune, dune_client, history, wrapper, program>>

\* await self.client.disconnect()
FetchDisconnects ==
    /\ session.pc = "refreshed"
    /\ session' = [session EXCEPT !.pc = "disconnected", !.open = @ - 1]
    /\ UNCHANGED <<postgresVars, sourceVars, run, runtime, dune, dune_client, history, wrapper, program>>

\* fetch is left: ValueError without a result, else what dune_result_to_df gives
FetchLeft(f) ==
    /\ Cardinality(DOMAIN f.registry) <= Cardinality(DOMAIN StaticTypes) + MaxCached
    /\ DUNE_TO_PG' = f.registry
    /\ session' = [session EXCEPT !.pc = "done", !.raised = f.raised]
    /\ UNCHANGED <<postgresVars, call, run, runtime, dune, dune_client, history, wrapper, program>>

FetchReturns ==
    /\ session.pc = "disconnected"
    /\ FetchLeft(fetch(DUNE_TO_PG, session.response))

FetchNext ==
    \/ FetchConnects
    \/ FetchRefreshes
    \/ FetchDisconnects
    \/ FetchReturns

FetchSpec == Init /\ [][FetchNext]_vars

----------------------------------------------------------------------------
(* main: the jobs run concurrently and are reported as they complete *)

\* uuid.uuid4().hex
run_id == "run_id"

\* one iteration of the loop, with `job` from config.jobs and the task that
\* as_completed handed out: the name in job_metrics, the job label of the
\* push, the line logged, and the job whose run it was that completed
Report(job, task) ==
    [name |-> job.name,
     pushed |-> <<"dune-sync-", run_id>>,
     logged |-> Log("info", "Job completed: %s", <<job.name>>),
     finished |-> task.name]

\* config = RuntimeConfig.load_from_yaml(args.config); tasks = [job.run() ...]
Configured_main(loaded) ==
    /\ program' = IF loaded.raised # "none"
                  THEN Executing("raised", <<>>, <<>>, <<>>, loaded.raised)
                  ELSE Executing("running", loaded.jobs, <<>>, <<>>, "none")
    /\ UNCHANGED <<postgresVars, sourceVars, run, runtime, dune, dune_client, history, wrapper, session>>

MainLoads ==
    /\ program.pc = "idle"
    /\ \E jobs \in JobLists : Configured_main(__post_init__(jobs))

\* the tasks not handed out by as_completed so far
Pending == (1..Len(program.jobs)) \ set(program.completed)

\* for job, completed_task in zip(config.jobs, as_completed(tasks)): the next
\* job of config.jobs is paired with whichever pending task completes next;
\* awaiting it returns or raises what that run raised
MainAwaits ==
    /\ program.pc = "running"
    /\ Len(program.reports) < Len(program.jobs)
    /\ \E k \in Pending, outcome \in RunOutcomes :
          program' = IF outcome # "none"
                     THEN [program EXCEPT !.pc = "raised", !.raised = outcome,
                                          !.completed = Append(@, k)]
                     ELSE [program EXCEPT
                             !.completed = Append(@, k),
                             !.reports = Append(@, Report(program.jobs[Len(program.reports) + 1],
                                                          program.jobs[k]))]
    /\ UNCHANGED <<postgresVars, sourceVars, run, runtime, dune, dune_client, history, wrapper, session>>

\* the loop is exhausted
MainReturns ==
    /\ program.pc = "running"
    /\ Len(program.reports) = Len(program.jobs)
    /\ program' = [program EXCEPT !.pc = "done"]
    /\ UNCHANGED <<postgresVars, sourceVars, run, runtime, dune, dune_client, history, wrapper, session>>

MainNext ==
    \/ MainLoads
    \/ MainAwaits
    \/ MainReturns

MainSpec == Init /\ [][MainNext]_vars

----------------------------------------------------------------------------
(* Reading the last call into a source *)

Materializing == call.op = "dune_result_to_df"
Resolving == call.op = "_handle_column_types"
Converting == call.op = "_convert_bytea_to_hex"
CallReturned == call.raised = "none"

\* the declared columns of the result that was materialized
Declared == call.args.metadata.column_names
DeclaredType(name) ==
    call.args.metadata.column_types[
        CHOOSE i \in 1..Len(Declared) : Declared[i] = name]

----------------------------------------------------------------------------
(* C11 *)

\* C11: materializing a result with zero rows and N declared columns, whatever
\* their declared types, returns a frame with no rows and a type map with
\* exactly one entry for each of the N columns.
C11_ZeroRows ==
    (Materializing /\ Len(call.args.rows) = 0) =>
        /\ CallReturned
        /\ Len(call.ret.records) = 0
        /\ DOMAIN call.ret.dtypes = ToSet(Declared)

----------------------------------------------------------------------------
(* C12 *)

\* C12: resolving "decimal(P,S)", with or without a blank after the comma, for
\* precision P >= 1 and scale S >= 0, returns NUMERIC with precision P and
\* scale S.
C12_DecimalRoundTrip ==
    Resolving =>
        \A P \in 1..MaxPrecision, S \in 0..MaxScale, spaces \in 0..1 :
            call.args[2] = Decimal(P, S, spaces) =>
                CallReturned /\ call.ret[1] = Numeric(P, S)

----------------------------------------------------------------------------
(* C13 *)

\* a column type: one of the classes, or NUMERIC with precision and scale
IsColumnType(t) ==
    \/ t \in {StaticTypes[d_type] : d_type \in DOMAIN StaticTypes} \cup {JSONB}
    \/ t.name = "NUMERIC" /\ Len(t.args) = 2

----------------------------------------------------------------------------
(* C14 *)

\* a type string that is in no table and does not come to a parametrized
\* type: no static entry, no varchar(n), no decimal(P,S) with P and S kept
IsUnknownType(d_type) ==
    /\ d_type \notin DOMAIN StaticTypes
    /\ ~match_varchar(d_type).matched
    /\ ~(/\ match_decimal(d_type).matched
         /\ Truthy(_parse_decimal_type(d_type)[1])
         /\ Truthy(_parse_decimal_type(d_type)[2]))

LoggedBySource(level, msg, arg) ==
    \E i \in 1..Len(call.logs) :
        /\ call.logs[i].level = level
        /\ call.logs[i].msg = msg
        /\ call.logs[i].args = <<arg>>

\* C14: when a result declares a column of unknown type (a decimal whose
\* precision and scale are not kept included, which is logged as an error),
\* materialization returns, the column's type is JSONB, the column is reported
\* as unknown, every cell of it that is not null is the JSON text of what it
\* was, and the other columns are materialized with their own types.
C14_UnknownFallback ==
    Materializing =>
        \A i \in 1..Len(Declared) :
            IsUnknownType(DeclaredType(Declared[i])) =>
                /\ CallReturned
                /\ call.ret.dtypes[Declared[i]] = JSONB
                /\ LoggedBySource("warning", "Unknown column: %s - treating as JSONB",
                                  DeclaredType(Declared[i]))
                /\ match_decimal(DeclaredType(Declared[i])).matched =>
                        LoggedBySource("error",
                            "Failed to parse precision and scale from Dune result: %s",
                            Declared[i])
                /\ \A r \in 1..Len(call.args.rows) :
                        notnull(call.args.rows[r][Declared[i]]) =>
                            call.ret.records[r][Declared[i]] =
                                PyStr(dumps(call.args.rows[r][Declared[i]]))
                /\ DOMAIN call.ret.dtypes = ToSet(Declared)

----------------------------------------------------------------------------
(* C15 *)

\* the rows of column `name` hold buffers only
AllBuffers(df, name) ==
    \A r \in 1..Len(df.records) : df.records[r][name].kind = "memoryview"

\* C15: materializing a result with rows decodes every cell "0x" + hex(b) of
\* a varbinary column to the bytes b and leaves its null cells null;
\* _convert_bytea_to_hex turns every buffer of b of a buffer column into
\* "0x" + hex(b), which decodes to b again.
C15_BinaryRoundTrip ==
    /\ (Materializing /\ Len(call.args.rows) > 0) =>
        \A i \in 1..Len(Declared) :
            DeclaredType(Declared[i]) = varbinary =>
                /\ CallReturned
                /\ \A r \in 1..Len(call.args.rows) :
                    /\ call.args.rows[r][Declared[i]] = None =>
                            call.ret.records[r][Declared[i]] = None
                    /\ \A b \in ByteStrings :
                            call.args.rows[r][Declared[i]] = Wire(b) =>
                                call.ret.records[r][Declared[i]] = PyBytes(b)
    /\ (Converting /\ Len(call.args.records) > 0 /\ AllBuffers(call.args, "hash")) =>
        /\ CallReturned
        /\ \A r \in 1..Len(call.args.records) :
            /\ call.ret.records[r]["hash"] = Wire(call.args.records[r]["hash"].v)
            /\ decode(call.ret.records[r]["hash"]) = PyBytes(call.args.records[r]["hash"].v)

\* a varbinary column with the cells "0xabcd" and null was decoded
C15_Witness ==
    /\ Materializing /\ CallReturned
    /\ "hash" \in ToSet(Declared) /\ DeclaredType("hash") = varbinary
    /\ \E r, q \in 1..Len(call.args.rows) :
        /\ call.args.rows[r]["hash"] = Wire(<<171, 205>>)
        /\ call.ret.records[r]["hash"] = PyBytes(<<171, 205>>)
        /\ call.args.rows[q]["hash"] = None
        /\ call.ret.records[q]["hash"] = None

----------------------------------------------------------------------------
(* C16 *)

\* C16: in every column of unknown type of a materialized result, a cell that
\* is not null is the JSON text of what it was, and a cell that was null is
\* still null.
C16_OpaqueCells ==
    (Materializing /\ CallReturned) =>
        \A i \in 1..Len(Declared) :
            IsUnknownType(DeclaredType(Declared[i])) =>
                \A r \in 1..Len(call.args.rows) :
                    IF notnull(call.args.rows[r][Declared[i]])
                    THEN call.ret.records[r][Declared[i]] =
                            PyStr(dumps(call.args.rows[r][Declared[i]]))
                    ELSE call.ret.records[r][Declared[i]] = call.args.rows[r][Declared[i]]

----------------------------------------------------------------------------
(* Reading a Job.run *)

\* the awaited fetch of this run is over: it returned or it raised
FetchOver == run.pc \in {"fetched", "done", "raised"}

\* the response held no result
Resultless == run.response.result = None

\* the response held a result of zero rows
ZeroRowResult ==
    /\ run.response.result # None
    /\ Len(run.response.result.rows) = 0

\* the run logged this line
LoggedByRun(level, msg) ==
    \E i \in 1..Len(run.logs) : run.logs[i].level = level /\ run.logs[i].msg = msg

\* a response without a result makes fetch raise, the exception leaves Job.run
\* and save is not called
ResultlessFails ==
    (FetchOver /\ Resultless) =>
        /\ run.pc = "raised"
        /\ run.raised = "ValueError"
        /\ run.data = EmptyFrame
        /\ run.saves = 0

\* C17: a response without a result makes fetch raise an execution failure that
\* leaves Job.run with save never called; a result of zero rows is no failure:
\* fetch returns it as an empty frame and nothing is raised
C17_ResultlessIsFailure ==
    /\ ResultlessFails
    /\ (FetchOver /\ ZeroRowResult) =>
        /\ run.pc # "raised"
        /\ run.raised = "none"
        /\ Len(run.data.records) = 0

\* C18: in one Job.run save is called at most once, never before fetch has
\* returned, and exactly when the fetched frame has rows and columns; on an empty
\* frame the run logs the warning and ends without raising
C18_Sequential ==
    /\ run.saves <= 1
    /\ run.pc \in {"idle", "fetching", "fetched"} => run.saves = 0
    /\ run.saves = 1 =>
        /\ run.response.result # None
        /\ Len(run.data.records) > 0
        /\ Len(run.data.columns) > 0
    /\ run.pc = "done" =>
        (run.saves = 1 <=> (Len(run.data.records) > 0 /\ Len(run.data.columns) > 0))
    /\ (run.pc = "done" /\ run.saves = 0) =>
        /\ LoggedByRun("warning", "No query results found! Skipping write")
        /\ run.raised = "none"
    /\ (run.pc = "raised" /\ run.saves = 0) =>
        /\ run.data = EmptyFrame
        /\ run.raised \in {"ValueError", "KeyError"}

\* a run over an empty frame has ended: no save, the warning
C18_Witness ==
    /\ run.pc = "done"
    /\ run.saves = 0
    /\ ~Resultless
    /\ LoggedByRun("warning", "No query results found! Skipping write")

----------------------------------------------------------------------------
(* Reading the last RuntimeConfig(jobs) *)

\* the names that two jobs of the list share
SharedNames(jobs) ==
    {jobs[i].name : i \in {k \in 1..Len(jobs) :
                              \E j \in 1..Len(jobs) : j # k /\ jobs[j].name = jobs[k].name}}

\* C19: RuntimeConfig(jobs) raises ValueError listing exactly the shared names
\* whenever two of the jobs share a name, and then there is no object; an object
\* that exists holds the jobs given, their names pairwise different
C19_UniqueJobNames ==
    /\ SharedNames(runtime.jobs) # {} <=> runtime.raised = "ValueError"
    /\ runtime.raised = "ValueError" =>
        /\ runtime.config = None
        /\ runtime.duplicates = SharedNames(runtime.jobs)
    /\ runtime.raised = "none" \/ runtime.raised = "ValueError"
    /\ runtime.config # None =>
        /\ runtime.config.jobs = runtime.jobs
        /\ \A i, j \in 1..Len(runtime.config.jobs) :
              runtime.config.jobs[i].name = runtime.config.jobs[j].name => i = j

\* a list in which one name comes three times and another once was rejected
C19_Witness ==
    /\ runtime.raised = "ValueError"
    /\ Len(runtime.jobs) = 4
    /\ runtime.duplicates = {"jobName"}
    /\ runtime.config = None

----------------------------------------------------------------------------
(* Reading a DuneDestination *)

\* the form namespace.table_name: one separator
OneSeparator(table_name) ==
    Cardinality({i \in 1..Len(table_name) : table_name[i] = "."}) = 1

\* C20: a table name that is not of the form namespace.table_name is rejected
\* by the constructor with ValueError, so every DuneDestination that exists has
\* such a name and the split of the name during a save by insertion succeeds
C20_RejectedAtConstruction ==
    /\ (dune.pc # "none" /\ ~OneSeparator(dune.table_name)) =>
        /\ dune.pc = "rejected"
        /\ dune.raised = "ValueError"
    /\ (dune.pc = "saved" /\ dune.insertion_type # "upload_csv") => dune.unpacked


\* the save went by _insert and is over
Inserting == dune.pc = "saved" /\ dune.insertion_type # "upload_csv"

\* the last call made on the client raised DuneError
ClientRaised ==
    /\ Len(dune.calls) > 0
    /\ dune_client[dune.calls[Len(dune.calls)]] = "DuneError"

\* insert_table was called and the client took the rows
Accepted ==
    /\ Len(dune.calls) > 0
    /\ dune.calls[Len(dune.calls)] = "insert_table"
    /\ dune_client.insert_table = "inserted"

\* C21: a DuneError raised by the client during the upload, or a ValueError
\* arising in it, leaves save as that exception; save returns a count only when
\* the upload was accepted
C21_SavePropagates ==
    Inserting =>
        /\ ClientRaised => dune.raised = "DuneError"
        /\ ~dune.unpacked => dune.raised = "ValueError"
        /\ dune.raised = "none" => Accepted

\* where name comes in the calls made on the client, 0 when it does not
Position(name) ==
    IF \E i \in 1..Len(dune.calls) : dune.calls[i] = name
    THEN CHOOSE i \in 1..Len(dune.calls) : dune.calls[i] = name
    ELSE 0

\* how often name was called
CallsOf(name) == Cardinality({i \in 1..Len(dune.calls) : dune.calls[i] = name})

C27_RefusedWitness ==
    /\ Inserting
    /\ dune_client.create_table = "refused"
    /\ dune.calls = <<"run_query", "create_table">>

----------------------------------------------------------------------------
(* C22 *)

\* C22: _convert_bytea_to_hex does not raise, turns every buffer of bytes b
\* into "0x" + hex(b), leaves no buffer behind and leaves every other cell as
\* it was, wherever the null cells of the binary column are
C22_BufferCells ==
    Converting =>
        /\ CallReturned
        /\ Len(call.ret.records) = Len(call.args.records)
        /\ \A r \in 1..Len(call.args.records) : \A name \in DOMAIN call.args.records[r] :
            /\ call.args.records[r][name].kind = "memoryview" =>
                  call.ret.records[r][name] = Wire(call.args.records[r][name].v)
            /\ call.args.records[r][name].kind # "memoryview" =>
                  call.ret.records[r][name] = call.args.records[r][name]
            /\ call.ret.records[r][name].kind # "memoryview"

----------------------------------------------------------------------------
(* C23, C25 *)

\* the second save to the object, which found the table otherwise than the
\* first save had left it: dropped, or a unique constraint added or removed
SecondSaveAfterChange ==
    /\ Saved /\ NonEmpty /\ Policy \in {"upsert", "insert_ignore"}
    /\ history.saves = "again"
    /\ history.moved

\* C23: a second upsert / insert_ignore save to the same object, after another
\* client has dropped the table or added or removed a unique constraint, acts on
\* the table as it is now: it appends to a fresh table when there is none, raises
\* ValueError and changes nothing when the table has no constraint on the index
\* columns, and goes to the conflict-handling write when it has one
C23_NoCachedTableState ==
    SecondSaveAfterChange =>
        /\ ~Found.exists =>
            /\ last.raised # "ValueError"
            /\ Returned =>
                /\ db.exists
                /\ db.constraints = {}
                /\ BagCardinality(db.rows) = Len(Records)
        /\ (Found.exists /\ ~Constrained) =>
            /\ last.raised = "ValueError"
            /\ db = Found
        /\ Constrained =>
            /\ last.raised # "ValueError"
            /\ Returned =>
                /\ db.constraints = Found.constraints
                /\ BagCardinality(db.rows) >= BagCardinality(Found.rows)
                /\ \A r, q \in BagToSet(db.rows) :
                      (SameKey(r, q) /\ ~NullKey(r)) => (r = q /\ CopiesIn(r, db.rows) = 1)

\* the table was dropped after the first save and the second save made it anew
C23_Witness ==
    /\ SecondSaveAfterChange
    /\ history.left.exists
    /\ ~Found.exists
    /\ Returned
    /\ db.exists

\* the constraint was added after the first save and the second save upserted
C23_ConstraintAdded ==
    /\ SecondSaveAfterChange
    /\ Policy = "upsert"
    /\ Constrained
    /\ Returned
    /\ BagCardinality(Found.rows) > 0

\* the constraint was dropped after the first save and the second save raised
C23_ConstraintDropped ==
    /\ SecondSaveAfterChange
    /\ Found.exists /\ ~Constrained
    /\ Found.constraints = {}
    /\ last.raised = "ValueError"


\* a save to an object whose saves have all found the table as the save before
\* had left it, the first of them finding none
Unassisted ==
    /\ Saved /\ NonEmpty /\ Policy \in {"upsert", "insert_ignore"}
    /\ Len(Index) > 0
    /\ history.intact

\* C25: from no table on and with no other client at work, every upsert /
\* insert_ignore save of a batch to an object with index columns returns (unless
\* the server aborts it), and afterwards no two rows of the table carry the same
\* index key
C25_RepeatedSaves ==
    Unassisted =>
        /\ last.raised \in {"none", "OperationalError"}
        /\ \A r \in BagToSet(db.rows) :
            ~NullKey(r) =>
                /\ CopiesIn(r, db.rows) = 1
                /\ \A q \in BagToSet(db.rows) : SameKey(r, q) => r = q

----------------------------------------------------------------------------
(* C26 *)

\* the index key of the row found occurs in the incoming batch
KeyIncoming(r) == \E i \in 1..Len(Records) : SameKey(r, Incoming(i))

\* the columns of the table found that the incoming frame lacks
AbsentColumns == DOMAIN Found.schema \ ToSet(last.data.columns)

\* C26: an upsert / insert_ignore save deletes no row and leaves every row it
\* found whose index key is not in the batch as it was; an upsert leaves the
\* columns the incoming frame lacks as they were in the row it updates
C26_FrameEffect ==
    (Saved /\ NonEmpty /\ Policy \in {"upsert", "insert_ignore"}) =>
        /\ BagCardinality(db.rows) >= BagCardinality(Found.rows)
        /\ (Found.exists /\ ~(ToSet(Index) \subseteq DOMAIN Found.schema)) => db = Found
        /\ ToSet(Index) \subseteq DOMAIN Found.schema =>
            \A r \in BagToSet(Found.rows) :
                /\ ~KeyIncoming(r) => CopiesIn(r, db.rows) >= CopiesIn(r, Found.rows)
                /\ Policy = "insert_ignore" =>
                      CopiesIn(r, db.rows) >= CopiesIn(r, Found.rows)
                /\ Policy = "upsert" =>
                    \E q \in BagToSet(db.rows) :
                        /\ SameKey(q, r)
                        /\ \A c \in AbsentColumns : q[c] = r[c]

\* an upsert of a frame with the one column id met the row with that id, which
\* kept its value, beside a row with another id
C26_Witness ==
    /\ UpsertDone
    /\ AbsentColumns = {"value"}
    /\ BagCardinality(Found.rows) = 2
    /\ \E r \in BagToSet(Found.rows) :
        /\ KeyIncoming(r) /\ ~NullKey(r)
        /\ r["value"] # NULL
        /\ r \in BagToSet(db.rows)
    /\ \E r \in BagToSet(Found.rows) : ~KeyIncoming(r) /\ r \in BagToSet(db.rows)


\* a wrapped call is over
WrapperDone == wrapper.pc = "done"

\* the one push the finished run calls for
ExpectedPush ==
    [gateway |-> wrapper.url, job |-> <<"dune-sync-", wrapper.name>>,
     job_failure_count |-> IF wrapper.outcome = "none" THEN 0 ELSE 1]

C24_ReturnedWitness ==
    /\ WrapperDone /\ Configured(wrapper.url)
    /\ wrapper.outcome = "none" /\ wrapper.raised = "none"
    /\ Len(wrapper.pushes) = 1 /\ wrapper.pushes[1].job_failure_count = 0


\* a fetch is over, by return or by exception
FetchOut == session.pc = "done"

\* C28: whenever fetch is left, by its return or by any exception, no client
\* session it opened is still open
C28_ConnectionReleased == FetchOut => session.open = 0


\* the reports main() has made so far
Reports == program.reports

\* the jobs whose run had completed when report i was made
FinishedNames == {Reports[i].finished : i \in 1..Len(Reports)}

\* C29: every report of main() names the job whose run completed: the line
\* 'Job completed' and the job label of the push carry that job's name, whatever
\* the order of completion, and when main() returns every job of the
\* configuration has been reported exactly once
C29_ReportNamesFinishedJob ==
    /\ \A i \in 1..Len(Reports) :
          /\ Reports[i].logged.args = <<Reports[i].finished>>
          /\ Reports[i].name = Reports[i].finished
          /\ Reports[i].pushed = <<"dune-sync-", Reports[i].finished>>
    /\ program.pc = "done" =>
          \A j \in 1..Len(program.jobs) :
              Cardinality({i \in 1..Len(Reports) :
                             Reports[i].logged.args = <<program.jobs[j].name>>}) = 1

\* the line logged alone: it names the job that completed
C29_LoggedNameFinished ==
    \A i \in 1..Len(Reports) : Reports[i].logged.args = <<Reports[i].finished>>


\* what resolving d_type comes to in a process that resolved nothing before
Afresh(d_type) == _handle_column_types(StaticTypes, "dec_col", d_type)

\* the type strings the calls so far have added to DUNE_TO_PG
Added == DOMAIN DUNE_TO_PG \ DOMAIN StaticTypes

\* C30: DUNE_TO_PG is only extended: every static entry keeps its type, every
\* entry added is the one a fresh process adds for that type string, and a call
\* of _handle_column_types returns (or raises) for its type string what it
\* would in a process that made no call before
C30_RegistryOnlyExtended ==
    /\ \A d_type \in DOMAIN StaticTypes :
          d_type \in DOMAIN DUNE_TO_PG /\ DUNE_TO_PG[d_type] = StaticTypes[d_type]
    /\ \A d_type \in Added :
          /\ d_type \in DOMAIN Afresh(d_type).registry
          /\ DUNE_TO_PG[d_type] = Afresh(d_type).registry[d_type]
    /\ Resolving =>
          /\ call.raised = Afresh(call.args[2]).raised
          /\ call.ret[1] = Afresh(call.args[2]).pg_type

\* a type string resolved after a call before it had added another one
C30_Witness ==
    /\ Resolving /\ CallReturned
    /\ Added \ {call.args[2]} # {}

\* a parametrized type resolved to the entry the registry holds for it
C30_CachedWitness ==
    /\ Resolving /\ CallReturned
    /\ call.args[2] \in Added
    /\ call.ret[1] = DUNE_TO_PG[call.args[2]]

====
